---- MODULE Spec2Model ----
(***************************************************************************)
(* Slashbot authentication core: challenge issuance and one-shot           *)
(* redemption, signature verification, bearer tokens, account keys.        *)
(* The store is the SQLite store (tables auth_challenges, auth_tokens,     *)
(* accounts, account_keys); every SQL statement is one atomic step and     *)
(* request handlers run concurrently, one per process.                     *)
(***************************************************************************)
EXTENDS Integers, FiniteSets, Sequences, TLC

\* ------------------------------------------------------------------ bounds
\* The clock counts ticks; a second has TicksPerSec ticks, so that a
\* time.Time carries a sub-second part that Unix() drops.
TicksPerSec == 3
MaxTime == 4
MaxChallenges == 1
MaxTokens == 2
MaxKeys == 2
MaxAccounts == 2
MaxRequests == 3

\* Two concurrent request goroutines.
Procs == {"p1", "p2"}

\* ---------------------------------------------------------- configuration
\* Service.challengeTTL: one second.  Service.tokenTTL is chosen at
\* construction (NewService) among TokenTTLs; the tests use an hour and -1s.
ChallengeTTL == TicksPerSec
TokenTTLs == {0 - 1, TicksPerSec}

\* ------------------------------------------------------------ input values
\* Algorithm strings a caller may send (strings are compared byte for byte).
AlgStrings == {"ed25519", "ED25519", "secp256k1"}

\* Key material (the decoded key bytes) with the scheme it belongs to.
Materials == {"edA", "edB", "secA"}
Scheme(m) == CASE m = "secA" -> "secp256k1" [] m \in {"edA", "edB"} -> "ed25519" [] m = "rsaA" -> "rsa" [] OTHER -> "none"

\* Number of bytes of a key material: an ed25519 key, a compressed
\* secp256k1 point, the DER of an RSA key, and a byte string one short of
\* an ed25519 key.
ByteLen(m) == CASE Scheme(m) = "ed25519" -> 32 [] Scheme(m) = "secp256k1" -> 33 [] Scheme(m) = "rsa" -> 294 [] OTHER -> 31

\* Public key strings: a key material in one textual encoding.
PubKeyStrings ==
    { [mat |-> "edA", enc |-> "b64raw"], [mat |-> "edA", enc |-> "b64std"],
      [mat |-> "edB", enc |-> "b64raw"], [mat |-> "secA", enc |-> "hex"] }

\* A signature string: the signature made under scheme with the private
\* key of material signer over message msg, cut or padded to len bytes and
\* written in the textual encoding enc.
SigLen(scheme) == CASE scheme = "ed25519" -> 64 [] scheme = "secp256k1" -> 65 [] OTHER -> 256
SigEnc(scheme) == IF scheme = "secp256k1" THEN "hex" ELSE "b64raw"
SignatureOf(m, c) == [signer |-> m, msg |-> c, scheme |-> Scheme(m), enc |-> SigEnc(Scheme(m)), len |-> SigLen(Scheme(m))]
Signatures == { SignatureOf(m, c) : m \in Materials, c \in 1..MaxChallenges }

\* Algorithm strings of any kind: the four algorithms in lower, upper and
\* mixed case, and strings that name none of them.
WideAlgs == {"ed25519", "Ed25519", "secp256k1", "SECP256K1", "rsa-pss", "RSA-PSS", "rsa-sha256", "RSA-SHA256", "rsa", "hmac", "HMAC", ""}

\* An RSA signature with the padding it was made with (PSS or PKCS#1 v1.5).
RSASignature(m, c, padding) == [signer |-> m, msg |-> c, scheme |-> padding, enc |-> "b64std", len |-> SigLen(padding)]

\* Texts of any kind: standard and raw base64, hex (bare, with 0x, with
\* surrounding blanks), a PEM block, and a text that is none of these.
Encodings == {"b64std", "b64raw", "hex", "hex0x", "hexsp", "pem", "junk"}
SigKeys == [mat : {"edA", "edB", "secA", "rsaA", "ed31"}, enc : Encodings]

\* The messages signed and verified: challenge strings.
Messages == 1..(MaxChallenges + 1)

\* Signatures by every key over every message, in every encoding, complete,
\* one byte short and one byte long (the recovery byte of a secp256k1
\* signature is the 65th).
Paddings(m) == IF Scheme(m) = "rsa" THEN {"rsa-pss", "rsa-sha256"} ELSE {Scheme(m)}
BaseLen(scheme) == IF scheme \in {"ed25519", "secp256k1"} THEN 64 ELSE 256
SigTexts == UNION { [signer : {m}, msg : Messages, scheme : Paddings(m), enc : Encodings \ {"pem"}, len : { BaseLen(Scheme(m)) + d - 1 : d \in 0..2 }] : m \in {"edA", "edB", "secA", "rsaA"} }
SigAlgs == {"ed25519", "ED25519", "secp256k1", "rsa-pss", "rsa-sha256", "hmac"}

\* One well-formed key text and the well-formed signatures for each scheme.
AlgKeys == { [mat |-> "edA", enc |-> "b64raw"], [mat |-> "secA", enc |-> "hex"], [mat |-> "rsaA", enc |-> "pem"] }
AlgSignatures == { SignatureOf(m, c) : m \in {"edA", "secA"}, c \in 1..MaxChallenges } \cup { RSASignature("rsaA", c, pad) : c \in 1..MaxChallenges, pad \in {"rsa-pss", "rsa-sha256"} }

\* ------------------------------------------------------------------ errors
Nil == "nil"
ErrNotFound == "not found"
ErrDuplicateKey == "duplicate key"
ErrChallengeExpired == "challenge expired"
ErrAlgMismatch == "challenge alg mismatch"
ErrKeyRevoked == "key revoked"
ErrTokenExpired == "token expired"

\* sql.NullInt64 / *int64
NullInt == [Valid |-> FALSE, Int64 |-> 0]
ValidInt(v) == [Valid |-> TRUE, Int64 |-> v]

\* ------------------------------------------------------------------- time
\* time.Time.Unix(): whole seconds, the sub-second part dropped.
Unix(t) == t \div TicksPerSec
\* time.Unix(sec, 0)
TimeUnix(sec) == sec * TicksPerSec
\* t.After(u)
After(t, u) == t > u

VARIABLES
    now,            \* wall clock, in ticks
    tokenTTL,       \* Service.tokenTTL
    challenges,     \* table auth_challenges
    tokens,         \* table auth_tokens
    accounts,       \* table accounts (ids)
    keys,           \* table account_keys
    nextChallenge,  \* randomToken: the next fresh challenge value
    nextToken,      \* randomToken: the next fresh token value
    nextAccountID,  \* AUTOINCREMENT of accounts
    nextKeyID,      \* AUTOINCREMENT of account_keys
    writer,         \* the process holding the database write transaction
    call,           \* per process: the running call and its locals
    issuedChallenges, \* what CreateChallenge returned to its callers
    issuedTokens,   \* what VerifyAndCreateToken returned to its callers
    returnedFor,    \* challenge values some VerifyAndCreateToken call returned for
    authResult,     \* what the last Authenticate call returned
    records,        \* tables stories, comments, votes, flags
    buckets,        \* MemoryLimiter.store
    response,       \* the last HTTP response written, with its request
    score,          \* column score of stories and comments
    hidden,         \* the stories and comments whose column hidden is 1
    flagCount,      \* column flag_count of stories and comments
    karma,          \* column karma of accounts
    allowLog        \* what the calls made on the MemoryLimiter directly returned

vars == << now, tokenTTL, challenges, tokens, accounts, keys, nextChallenge,
           nextToken, nextAccountID, nextKeyID, writer, call,
           issuedChallenges, issuedTokens, returnedFor, authResult,
           records, buckets, response, score, hidden, flagCount, karma,
           allowLog >>

\* The columns of the content tables that UPDATE statements change.
contentVars == << score, hidden, flagCount, karma >>

\* The state of the HTTP layer and of the content tables.
httpVars == << records, buckets, response, score, hidden, flagCount, karma,
              allowLog >>

Idle == [op |-> "idle", pc |-> "idle"]
NoWriter == "none"

\* No Authenticate call has returned yet.
NoAuthResult ==
    [bearer |-> 0, err |-> "none", at |-> 0,
     verified |-> [AccountID |-> NullInt, KeyID |-> 0], keyRevoked |-> FALSE]

\* -------------------------------------------------------------- rate limiter
\* RateLimits of the configuration (requests per minute and client).
StoryPerMinute == 1
CommentPerMinute == 1
VotePerMinute == 1

\* time.Minute
Window == 60 * TicksPerSec

\* Clients: the address clientIP reports, and the X-Bot-Id header ("" when
\* the header is absent).
ClientIPs == {"ip1"}
VoterIPs == {"ip1", "ip2", "ip3"}
BotIDs == {"", "bot1"}
HandlerActions == {"story", "comment", "vote", "flag"}

\* A key of calls made on the limiter directly.
DirectKeys == { << "direct", "key", "k1" >> }

\* fmt.Sprintf("%s:ip:%s", action, ip) and fmt.Sprintf("%s:bot:%s", action, botID)
LimiterKeys ==
    { << a, "ip", ip >> : a \in HandlerActions, ip \in ClientIPs \cup VoterIPs } \cup
    { << a, "bot", b >> : a \in HandlerActions, b \in BotIDs \ {""} } \cup
    DirectKeys

\* A key with no entry in MemoryLimiter.store.
NoBucket == [ok |-> FALSE, count |-> 0, resetAt |-> 0, window |-> 0]

\* The stories and comments requests can name (ids of the two tables), and
\* the account ids.
MaxVoters == 3
Contents == {"story", "comment"} \X (1..(MaxRequests + 1))
AccountIDs == 1..(MaxAccounts + MaxVoters)

\* Content tables without rows: the columns have their defaults.
NoContent ==
    /\ score = [c \in Contents |-> 0]
    /\ hidden = {}
    /\ flagCount = [c \in Contents |-> 0]
    /\ karma = [a \in AccountIDs |-> 0]
    /\ allowLog = << >>

\* No request has been answered yet.
NoResponse ==
    [n |-> 0, handler |-> "none", accountID |-> 0, hasBearer |-> FALSE,
     bearer |-> 0, status |-> 0]

InitStore ==
    /\ now = 0
    /\ challenges = {}
    /\ tokens = {}
    /\ accounts = {}
    /\ keys = {}
    /\ nextChallenge = 1
    /\ nextToken = 1
    /\ nextAccountID = 1
    /\ nextKeyID = 1
    /\ writer = NoWriter
    /\ call = [p \in Procs |-> Idle]
    /\ issuedChallenges = {}
    /\ issuedTokens = {}
    /\ returnedFor = {}
    /\ authResult = NoAuthResult
    /\ records = {}
    /\ buckets = [k \in LimiterKeys |-> NoBucket]
    /\ response = NoResponse
    /\ NoContent

\* NewService(store, tokenTTL, challengeTTL)
Init == InitStore /\ tokenTTL = TicksPerSec

\* The wall clock advances.
Tick ==
    /\ now < MaxTime
    /\ now' = now + 1
    /\ UNCHANGED httpVars
    /\ UNCHANGED << tokenTTL, challenges, tokens, accounts, keys, nextChallenge,
                    nextToken, nextAccountID, nextKeyID, writer, call,
                    issuedChallenges, issuedTokens, returnedFor, authResult >>

\* A statement that writes waits while another connection holds the
\* write transaction.
CanWrite(p) == writer \in {NoWriter, p}

\* -------------------------------------------------------- Service.CreateChallenge
\* Store.CreateChallenge: INSERT INTO auth_challenges, expires_at in seconds.
StoreCreateChallenge(c) ==
    challenges \cup { [challenge |-> c.Challenge, alg |-> c.Alg,
                       expires_at |-> Unix(c.ExpiresAt)] }

\* The model.Challenge the service builds and returns.
NewChallenge(alg) ==
    [Challenge |-> nextChallenge, Alg |-> alg, ExpiresAt |-> now + ChallengeTTL]

CreateChallenge(alg) ==
    /\ nextChallenge <= MaxChallenges
    /\ CanWrite("none")
    /\ challenges' = StoreCreateChallenge(NewChallenge(alg))
    /\ issuedChallenges' = issuedChallenges \cup {NewChallenge(alg)}
    /\ nextChallenge' = nextChallenge + 1
    /\ UNCHANGED httpVars
    /\ UNCHANGED << now, tokenTTL, tokens, accounts, keys, nextToken,
                    nextAccountID, nextKeyID, writer, call, issuedTokens,
                    returnedFor, authResult >>

\* ------------------------------------------------------------ VerifySignature
\* The error of the default case of the switch in VerifySignature.
ErrUnsupportedAlg == "unsupported alg"

ToLowerEd25519(alg) == "ed25519"

\* strings.ToLower on the algorithm strings callers send.
ToLower(alg) == CASE alg \in {"ED25519", "Ed25519"} -> "ed25519" [] alg = "SECP256K1" -> "secp256k1" [] alg = "RSA-PSS" -> "rsa-pss" [] alg = "RSA-SHA256" -> "rsa-sha256" [] alg = "HMAC" -> "hmac" [] OTHER -> alg

\* decodeHex: TrimSpace, TrimPrefix "0x", hex.DecodeString.  The hex
\* encodings (bare, with 0x, with surrounding blanks) give the bytes; a
\* base64 or PEM text is not hex.
DecodeHex(enc) == IF enc \in {"hex", "hex0x", "hexsp"} THEN "bytes" ELSE "error"

DecodeBase64OrHexAny(enc) == "bytes"

\* decodeBase64OrHex: base64.StdEncoding, then base64.RawStdEncoding, then
\* decodeHex.  Hex digits and the letter x are base64 letters, so a hex
\* text of any even length is decoded by one of the two base64 decoders,
\* to bytes that are not the hex-decoded ones ("other"); decodeHex is
\* reached only by a text with a letter outside the base64 alphabet, such
\* as a surrounding blank.
DecodeBase64OrHex(enc) == CASE enc \in {"b64std", "b64raw"} -> "bytes" [] enc \in {"hex", "hex0x"} -> "other" [] OTHER -> DecodeHex(enc)

\* Length of what decodeBase64OrHex returns for a text encoding n bytes:
\* three bytes for every four letters of a hex text taken as base64.
DecodedLen(enc, n) == CASE enc = "hex" -> (3 * n) \div 2 [] enc = "hex0x" -> (3 * (n + 1)) \div 2 [] OTHER -> n

SigVerifiesAnyKey(mat, message, signature) == signature.msg = message

\* ed25519.Verify / ecdsa.Verify / rsa.Verify*: the signature was made over
\* exactly this message with the private key of exactly this public key.
SigVerifies(mat, message, signature) ==
    signature.signer = mat /\ signature.msg = message

\* The errors of the decoders and parsers of the libraries.
ErrDecode == "decode error"
ErrParsePubKey == "invalid secp256k1 public key"
ErrParsePKIX == "x509: failed to parse public key"

\* strings.TrimSpace on a text: the hex text without its blanks.
TrimSpace(enc) == IF enc = "hexsp" THEN "hex" ELSE enc

\* decodeEd25519: both texts decode, to 32 and 64 bytes.
DecodeEd25519Err(publicKey, signature) ==
    IF DecodeBase64OrHex(publicKey.enc) = "error" THEN ErrDecode
    ELSE IF DecodeBase64OrHex(signature.enc) = "error" THEN ErrDecode
    ELSE IF DecodedLen(publicKey.enc, ByteLen(publicKey.mat)) # 32 THEN "invalid ed25519 public key length"
    ELSE IF DecodedLen(signature.enc, signature.len) # 64 THEN "invalid ed25519 signature length"
    ELSE Nil

\* ed25519.Verify on the decoded bytes (false for a signature that is not
\* 64 bytes long).
Ed25519Verify(publicKey, message, signature) ==
    /\ DecodedLen(signature.enc, signature.len) = 64
    /\ DecodeBase64OrHex(publicKey.enc) = "bytes"
    /\ DecodeBase64OrHex(signature.enc) = "bytes"
    /\ Scheme(publicKey.mat) = "ed25519"
    /\ signature.scheme = "ed25519"
    /\ SigVerifies(publicKey.mat, message, signature)

\* The secp256k1 branch up to the verification: decodeHexPair,
\* secp256k1.ParsePubKey, the length check of the signature.
DecodeSecp256k1Err(publicKey, signature) ==
    IF DecodeHex(publicKey.enc) = "error" THEN ErrDecode
    ELSE IF DecodeHex(signature.enc) = "error" THEN ErrDecode
    ELSE IF Scheme(publicKey.mat) # "secp256k1" THEN ErrParsePubKey
    ELSE IF signature.len < 64 THEN "invalid secp256k1 signature length"
    ELSE Nil

\* ecdsaVerify on r = sig[:32], s = sig[32:64] and the personal-message hash.
Secp256k1Verify(publicKey, message, signature) ==
    /\ signature.scheme = "secp256k1"
    /\ SigVerifies(publicKey.mat, message, signature)

\* decodeRSA: a PEM block, or base64/hex DER after TrimSpace, parsed as an
\* RSA public key; the signature through decodeBase64OrHex, no length check.
DecodeRSAErr(publicKey, signature) ==
    IF publicKey.enc = "pem" /\ Scheme(publicKey.mat) # "rsa" THEN "unsupported rsa public key"
    ELSE IF publicKey.enc # "pem" /\ DecodeBase64OrHex(TrimSpace(publicKey.enc)) = "error" THEN ErrDecode
    ELSE IF publicKey.enc # "pem" /\ DecodeBase64OrHex(TrimSpace(publicKey.enc)) = "other" THEN ErrParsePKIX
    ELSE IF publicKey.enc # "pem" /\ Scheme(publicKey.mat) # "rsa" THEN ErrParsePKIX
    ELSE IF DecodeBase64OrHex(signature.enc) = "error" THEN ErrDecode
    ELSE Nil

\* rsa.VerifyPSS / rsa.VerifyPKCS1v15 on the SHA-256 digest: the padding of
\* the signature is the one the algorithm names, and nothing was cut off.
RSAVerify(padding, publicKey, message, signature) ==
    /\ DecodeBase64OrHex(signature.enc) = "bytes"
    /\ signature.scheme = padding
    /\ signature.len = SigLen(padding)
    /\ SigVerifies(publicKey.mat, message, signature)

VerifySignatureAccepts(alg, publicKey, message, signature) == Nil

VerifySignature(alg, publicKey, message, signature) ==
    CASE ToLower(alg) = "ed25519" ->
            IF DecodeEd25519Err(publicKey, signature) # Nil
            THEN DecodeEd25519Err(publicKey, signature)
            ELSE IF ~Ed25519Verify(publicKey, message, signature)
                 THEN "invalid ed25519 signature"
                 ELSE Nil
      [] ToLower(alg) = "secp256k1" ->
            IF DecodeSecp256k1Err(publicKey, signature) # Nil
            THEN DecodeSecp256k1Err(publicKey, signature)
            ELSE IF ~Secp256k1Verify(publicKey, message, signature)
                 THEN "invalid secp256k1 signature"
                 ELSE Nil
      [] ToLower(alg) \in {"rsa-pss", "rsa-sha256"} ->
            IF DecodeRSAErr(publicKey, signature) # Nil
            THEN DecodeRSAErr(publicKey, signature)
            ELSE IF ~RSAVerify(ToLower(alg), publicKey, message, signature)
                 THEN IF ToLower(alg) = "rsa-pss" THEN "invalid rsa-pss signature" ELSE "invalid rsa signature"
                 ELSE Nil
      [] OTHER -> ErrUnsupportedAlg

\* ------------------------------------------------------------ store reads
\* Store.ConsumeChallenge, the SELECT: the rows with this challenge value.
SelectChallenge(challenge) == { r \in challenges : r.challenge = challenge }

DeleteChallengeSkipped(challenge) == challenges

\* Store.ConsumeChallenge, the DELETE.
DeleteChallenge(challenge) == { r \in challenges : r.challenge # challenge }

\* Store.FindAccountKey: the key rows with exactly these two strings
\* (at most one, by idx_account_keys_unique).
FindAccountKey(alg, publicKey) ==
    { k \in keys : k.alg = alg /\ k.public_key = publicKey }

\* Store.GetToken
GetToken(token) == { t \in tokens : t.token = token }

\* ------------------------------------------------- Service.VerifyAndCreateToken
\* The call returns an error.
VerifyFails(p, challenge) ==
    /\ call' = [call EXCEPT ![p] = Idle]
    /\ returnedFor' = returnedFor \cup {challenge}

\* The ids of the key records whose revoked_at is set.
RevokedKeyIDs == { k.id : k \in { r \in keys : r.revoked_at.Valid } }

\* The key record k holds the key the caller presents as (alg, publicKey):
\* the same key bytes under the same signature scheme.
SameKey(k, alg, publicKey) ==
    k.public_key.mat = publicKey.mat /\ ToLower(k.alg) = ToLower(alg)

\* The result of the SELECT of ConsumeChallenge.
ConsumeErr(challenge) ==
    IF SelectChallenge(challenge) = {} THEN ErrNotFound ELSE Nil

\* s.store.ConsumeChallenge, first statement (SELECT).  A caller presents
\* a value CreateChallenge has handed out or one it never will (0): the
\* 32 random bytes of a future challenge cannot be guessed.
VerifySelect(p, challenge) ==
    /\ call[p] = Idle
    /\ challenge < nextChallenge
    /\ IF ConsumeErr(challenge) # Nil
       THEN VerifyFails(p, challenge)
       ELSE /\ call' = [call EXCEPT ![p] =
                          [op |-> "VerifyAndCreateToken", pc |-> "delete",
                           challenge |-> challenge,
                           late |-> challenge \in returnedFor,
                           revokedAtStart |-> RevokedKeyIDs,
                           c |-> CHOOSE r \in SelectChallenge(challenge) : TRUE]]
            /\ UNCHANGED returnedFor
    /\ UNCHANGED httpVars
    /\ UNCHANGED << now, tokenTTL, challenges, tokens, accounts, keys,
                    nextChallenge, nextToken, nextAccountID, nextKeyID, writer,
                    issuedChallenges, issuedTokens, authResult >>

\* s.store.ConsumeChallenge, second statement (DELETE); its result is dropped.
VerifyDelete(p) ==
    /\ call[p].op = "VerifyAndCreateToken" /\ call[p].pc = "delete"
    /\ CanWrite(p)
    /\ challenges' = DeleteChallenge(call[p].challenge)
    /\ call' = [call EXCEPT ![p].pc = "check"]
    /\ UNCHANGED httpVars
    /\ UNCHANGED << now, tokenTTL, tokens, accounts, keys, nextChallenge,
                    nextToken, nextAccountID, nextKeyID, writer,
                    issuedChallenges, issuedTokens, returnedFor, authResult >>

CheckChallengeNoExpiry(c, alg, publicKey, signature, t) ==
    IF c.alg # alg THEN ErrAlgMismatch
    ELSE VerifySignature(alg, publicKey, c.challenge, signature)

\* The checks made on the consumed challenge c at time t, in the order of
\* the code: expiry, algorithm, signature.
CheckChallenge(c, alg, publicKey, signature, t) ==
    IF After(t, TimeUnix(c.expires_at)) THEN ErrChallengeExpired
    ELSE IF c.alg # alg THEN ErrAlgMismatch
    ELSE VerifySignature(alg, publicKey, c.challenge, signature)

VerifyCheck(p, alg, publicKey, signature) ==
    /\ call[p].op = "VerifyAndCreateToken" /\ call[p].pc = "check"
    /\ IF CheckChallenge(call[p].c, alg, publicKey, signature, now) # Nil
       THEN VerifyFails(p, call[p].challenge)
       ELSE /\ call' = [call EXCEPT ![p] =
                          [op |-> "VerifyAndCreateToken", pc |-> "find",
                           challenge |-> call[p].challenge,
                           late |-> call[p].late, c |-> call[p].c,
                           alg |-> alg, publicKey |-> publicKey,
                           signature |-> signature,
                           expiredAtCheck |-> \E i \in issuedChallenges :
                               /\ i.Challenge = call[p].challenge
                               /\ now > i.ExpiresAt,
                           revokedBefore |-> \E k \in keys :
                               /\ k.id \in call[p].revokedAtStart
                               /\ SameKey(k, alg, publicKey)]]
            /\ UNCHANGED returnedFor
    /\ UNCHANGED httpVars
    /\ UNCHANGED << now, tokenTTL, challenges, tokens, accounts, keys,
                    nextChallenge, nextToken, nextAccountID, nextKeyID, writer,
                    issuedChallenges, issuedTokens, authResult >>

\* The error of Store.FindAccountKey: no row is ErrNotFound; a key row whose
\* account row is missing makes the LEFT JOIN yield NULL for a.id, which
\* row.Scan cannot store in an int64.
ErrScanNull == "converting NULL to int64 is unsupported"

StoreFindErr(alg, publicKey) ==
    IF FindAccountKey(alg, publicKey) = {} THEN ErrNotFound
    ELSE IF \E k \in FindAccountKey(alg, publicKey) : k.account_id \notin accounts
         THEN ErrScanNull
         ELSE Nil

FindAccountKeyErrSwallowed(storeErr) == Nil

\* if err != nil { if !errors.Is(err, store.ErrNotFound) { return ..., err } }:
\* the error VerifyAndCreateToken returns for the error of FindAccountKey.
FindAccountKeyErr(storeErr) ==
    IF storeErr \notin {Nil, ErrNotFound} THEN storeErr ELSE Nil

\* key, account, err := s.store.FindAccountKey(...); key.RevokedAt != nil.
\* Not found is no error: key = AccountKey{ID: 0}, account = nil; any other
\* error is returned.
FindErr(alg, publicKey) ==
    IF FindAccountKeyErr(StoreFindErr(alg, publicKey)) # Nil
    THEN FindAccountKeyErr(StoreFindErr(alg, publicKey))
    ELSE IF \E k \in FindAccountKey(alg, publicKey) : k.revoked_at.Valid
         THEN ErrKeyRevoked
         ELSE Nil

\* The account of the LEFT JOIN: nil when no key row or no account row.
FoundAccount(alg, publicKey) ==
    { k.account_id : k \in { r \in FindAccountKey(alg, publicKey) :
                                r.account_id \in accounts } }

\* accountID, keyID of the token: set only when account != nil.
TokenAccountIDZero(alg, publicKey) == ValidInt(0)

TokenAccountID(alg, publicKey) ==
    IF FoundAccount(alg, publicKey) = {} THEN NullInt
    ELSE ValidInt(CHOOSE a \in FoundAccount(alg, publicKey) : TRUE)

TokenKeyID(alg, publicKey) ==
    IF FoundAccount(alg, publicKey) = {} THEN 0
    ELSE (CHOOSE k \in FindAccountKey(alg, publicKey) : TRUE).id

VerifyFind(p) ==
    /\ call[p].op = "VerifyAndCreateToken" /\ call[p].pc = "find"
    /\ IF FindErr(call[p].alg, call[p].publicKey) # Nil
       THEN VerifyFails(p, call[p].challenge)
       ELSE /\ call' = [call EXCEPT ![p] =
                          [op |-> "VerifyAndCreateToken", pc |-> "token",
                           challenge |-> call[p].challenge,
                           late |-> call[p].late,
                           alg |-> call[p].alg, publicKey |-> call[p].publicKey,
                           expiredAtCheck |-> call[p].expiredAtCheck,
                           revokedBefore |-> call[p].revokedBefore,
                           accountID |-> TokenAccountID(call[p].alg, call[p].publicKey),
                           keyID |-> TokenKeyID(call[p].alg, call[p].publicKey)]]
            /\ UNCHANGED returnedFor
    /\ UNCHANGED httpVars
    /\ UNCHANGED << now, tokenTTL, challenges, tokens, accounts, keys,
                    nextChallenge, nextToken, nextAccountID, nextKeyID, writer,
                    issuedChallenges, issuedTokens, authResult >>

StoreCreateTokenReplace(token) ==
    { [token |-> token.Token, account_id |-> token.AccountID,
       key_id |-> token.KeyID, expires_at |-> Unix(token.ExpiresAt)] }

\* Store.CreateToken: INSERT INTO auth_tokens, expires_at in seconds.
StoreCreateToken(token) ==
    tokens \cup { [token |-> token.Token, account_id |-> token.AccountID,
                   key_id |-> token.KeyID, expires_at |-> Unix(token.ExpiresAt)] }

\* The model.Token the service builds and returns.
NewToken(accountID, keyID) ==
    [Token |-> nextToken, AccountID |-> accountID, KeyID |-> keyID,
     ExpiresAt |-> now + tokenTTL]

VerifyCreateToken(p) ==
    /\ call[p].op = "VerifyAndCreateToken" /\ call[p].pc = "token"
    /\ nextToken <= MaxTokens
    /\ CanWrite(p)
    /\ tokens' = StoreCreateToken(NewToken(call[p].accountID, call[p].keyID))
    /\ issuedTokens' = issuedTokens \cup
          { [token |-> NewToken(call[p].accountID, call[p].keyID),
             challenge |-> call[p].challenge, late |-> call[p].late,
             alg |-> call[p].alg,
             expiredAtCheck |-> call[p].expiredAtCheck,
             revokedBefore |-> call[p].revokedBefore] }
    /\ nextToken' = nextToken + 1
    /\ returnedFor' = returnedFor \cup {call[p].challenge}
    /\ call' = [call EXCEPT ![p] = Idle]
    /\ UNCHANGED httpVars
    /\ UNCHANGED << now, tokenTTL, challenges, accounts, keys, nextChallenge,
                    nextAccountID, nextKeyID, writer, issuedChallenges,
                    authResult >>

\* ------------------------------------------------------------ storage failures
\* An error of the database itself (SQLITE_BUSY, I/O), as the driver reports it.
StoreFaults == {"database is locked"}

ErrPcs == {"consumeErr", "findErr", "tokenErr"}

\* s.store.ConsumeChallenge fails: the SELECT returns an error that is not
\* sql.ErrNoRows; the store returns it and does not run the DELETE.
ConsumeChallengeFails(p, challenge, e) ==
    /\ call[p] = Idle
    /\ challenge < nextChallenge
    /\ call' = [call EXCEPT ![p] =
          [op |-> "VerifyAndCreateToken", pc |-> "consumeErr",
           challenge |-> challenge, late |-> challenge \in returnedFor,
           storeErr |-> e]]
    /\ UNCHANGED httpVars
    /\ UNCHANGED << now, tokenTTL, challenges, tokens, accounts, keys,
                    nextChallenge, nextToken, nextAccountID, nextKeyID, writer,
                    issuedChallenges, issuedTokens, returnedFor, authResult >>

\* s.store.FindAccountKey fails with an error of the database.
FindAccountKeyFails(p, e) ==
    /\ call[p].op = "VerifyAndCreateToken" /\ call[p].pc = "find"
    /\ call' = [call EXCEPT ![p] =
          [op |-> "VerifyAndCreateToken", pc |-> "findErr",
           challenge |-> call[p].challenge, late |-> call[p].late,
           alg |-> call[p].alg, publicKey |-> call[p].publicKey,
           expiredAtCheck |-> call[p].expiredAtCheck,
           revokedBefore |-> call[p].revokedBefore,
           accountID |-> NullInt, keyID |-> 0,
           storeErr |-> e]]
    /\ UNCHANGED httpVars
    /\ UNCHANGED << now, tokenTTL, challenges, tokens, accounts, keys,
                    nextChallenge, nextToken, nextAccountID, nextKeyID, writer,
                    issuedChallenges, issuedTokens, returnedFor, authResult >>

\* s.store.CreateToken fails: the INSERT returns an error, no row is written.
CreateTokenFails(p, e) ==
    /\ call[p].op = "VerifyAndCreateToken" /\ call[p].pc = "token"
    /\ call' = [call EXCEPT ![p] =
          [op |-> "VerifyAndCreateToken", pc |-> "tokenErr",
           challenge |-> call[p].challenge, late |-> call[p].late,
           storeErr |-> e]]
    /\ UNCHANGED httpVars
    /\ UNCHANGED << now, tokenTTL, challenges, tokens, accounts, keys,
                    nextChallenge, nextToken, nextAccountID, nextKeyID, writer,
                    issuedChallenges, issuedTokens, returnedFor, authResult >>

\* The error VerifyAndCreateToken returns for the error of a store call:
\* `return model.Token{}, nil, err` after ConsumeChallenge and CreateToken,
\* the not-found filter after FindAccountKey.
ServiceErr(frame) ==
    IF frame.pc = "findErr" THEN FindAccountKeyErr(frame.storeErr)
    ELSE frame.storeErr

\* VerifyAndCreateToken handles the error of the store call: it returns it,
\* or goes on to issue a token for an unregistered key (key = AccountKey{ID: 0},
\* account = nil).
VerifyStoreErr(p) ==
    /\ call[p].op = "VerifyAndCreateToken" /\ call[p].pc \in ErrPcs
    /\ IF ServiceErr(call[p]) # Nil
       THEN call' = [call EXCEPT ![p] =
               [op |-> "VerifyAndCreateToken", pc |-> "failed",
                from |-> call[p].pc,
                challenge |-> call[p].challenge, late |-> call[p].late,
                storeErr |-> call[p].storeErr, err |-> ServiceErr(call[p])]]
       ELSE call' = [call EXCEPT ![p] =
               [op |-> "VerifyAndCreateToken", pc |-> "token",
                challenge |-> call[p].challenge, late |-> call[p].late,
                alg |-> call[p].alg, publicKey |-> call[p].publicKey,
                expiredAtCheck |-> call[p].expiredAtCheck,
                revokedBefore |-> call[p].revokedBefore,
                accountID |-> call[p].accountID, keyID |-> call[p].keyID]]
    /\ UNCHANGED httpVars
    /\ UNCHANGED << now, tokenTTL, challenges, tokens, accounts, keys,
                    nextChallenge, nextToken, nextAccountID, nextKeyID, writer,
                    issuedChallenges, issuedTokens, returnedFor, authResult >>

\* The failed call returns (model.Token{}, nil, err) to its caller.
VerifyReturnErr(p) ==
    /\ call[p].op = "VerifyAndCreateToken" /\ call[p].pc = "failed"
    /\ VerifyFails(p, call[p].challenge)
    /\ UNCHANGED httpVars
    /\ UNCHANGED << now, tokenTTL, challenges, tokens, accounts, keys,
                    nextChallenge, nextToken, nextAccountID, nextKeyID, writer,
                    issuedChallenges, issuedTokens, authResult >>

\* ---------------------------------------------------------- Service.Authenticate
AuthenticateErr(bearer, t) ==
    IF GetToken(bearer) = {} THEN ErrNotFound
    ELSE IF After(t, TimeUnix((CHOOSE r \in GetToken(bearer) : TRUE).expires_at))
         THEN ErrTokenExpired
         ELSE Nil

\* Verified{AccountID, KeyID}
AuthenticateVerified(bearer, t) ==
    IF AuthenticateErr(bearer, t) # Nil
    THEN [AccountID |-> NullInt, KeyID |-> 0]
    ELSE [AccountID |-> (CHOOSE r \in GetToken(bearer) : TRUE).account_id,
          KeyID |-> (CHOOSE r \in GetToken(bearer) : TRUE).key_id]

\* The call returns (verified, err) at time now.  keyRevoked: the key record
\* the token row names is revoked at that time.  A caller presents a token
\* value VerifyAndCreateToken has handed out or one it never will (0).
Authenticate(bearer) ==
    /\ bearer < nextToken
    /\ authResult' = [bearer |-> bearer, err |-> AuthenticateErr(bearer, now),
                      at |-> now,
                      verified |-> AuthenticateVerified(bearer, now),
                      keyRevoked |-> \E r \in GetToken(bearer) :
                                        r.key_id \in RevokedKeyIDs]
    /\ UNCHANGED httpVars
    /\ UNCHANGED << now, tokenTTL, challenges, tokens, accounts, keys,
                    nextChallenge, nextToken, nextAccountID, nextKeyID, writer,
                    call, issuedChallenges, issuedTokens, returnedFor >>

\* ------------------------------------------------------------ key binding
UniqueViolationNever(alg, publicKey) == FALSE

\* idx_account_keys_unique: UNIQUE (alg, public_key) on account_keys.
UniqueViolation(alg, publicKey) ==
    \E k \in keys : k.alg = alg /\ k.public_key = publicKey

\* A row of account_keys as the two INSERT statements write it.
KeyRow(id, accountID, alg, publicKey) ==
    [id |-> id, account_id |-> accountID, alg |-> alg, public_key |-> publicKey,
     revoked_at |-> NullInt]

\* A key-binding call is entered (handler running, no statement executed yet).
\* fresh: the pair was in no key row when the call was entered.
\* known: the account the key is bound to existed then (CreateAccount
\* makes its own).
\* overlaps: another key-binding call with the same pair was running then.
BindBegin(p, op, accountID, alg, publicKey) ==
    /\ call[p] = Idle
    /\ call' = [call EXCEPT ![p] =
          [op |-> op, pc |-> "begin", accountID |-> accountID,
           alg |-> alg, publicKey |-> publicKey, keyID |-> 0,
           fresh |-> ~UniqueViolation(alg, publicKey),
           known |-> (op = "CreateAccount" \/ accountID \in accounts),
           overlaps |-> \E q \in Procs \ {p} :
               /\ call[q].op \in {"CreateAccount", "AddAccountKey"}
               /\ call[q].pc # "done"
               /\ call[q].alg = alg /\ call[q].publicKey = publicKey,
           err |-> Nil]]
    /\ UNCHANGED httpVars
    /\ UNCHANGED << now, tokenTTL, challenges, tokens, accounts, keys,
                    nextChallenge, nextToken, nextAccountID, nextKeyID, writer,
                    issuedChallenges, issuedTokens, returnedFor, authResult >>

\* Store.CreateAccount is entered: BeginTx.
CreateAccountBegin(p, alg, publicKey) ==
    BindBegin(p, "CreateAccount", 0, alg, publicKey)

\* Store.CreateAccount: INSERT INTO accounts, inside the transaction.  The
\* row and its id stay invisible to the other connections until the commit.
CreateAccountInsertAccount(p) ==
    /\ call[p].op = "CreateAccount" /\ call[p].pc = "begin"
    /\ nextAccountID <= MaxAccounts
    /\ CanWrite(p)
    /\ writer' = p
    /\ call' = [call EXCEPT ![p].pc = "insertKey", ![p].accountID = nextAccountID]
    /\ UNCHANGED httpVars
    /\ UNCHANGED << now, tokenTTL, challenges, tokens, accounts, keys,
                    nextChallenge, nextToken, nextAccountID, nextKeyID,
                    issuedChallenges, issuedTokens, returnedFor, authResult >>

TxRollbackSkipped(p) == accounts \cup {call[p].accountID}

\* The deferred tx.Rollback of CreateAccount: the account row the call
\* inserted (call[p].accountID) is discarded, the accounts table is the
\* committed one.
TxRollback(p) == accounts

CreateAccountKeyErrNone(alg, publicKey) == Nil

\* The error of the INSERT INTO account_keys of CreateAccount.
CreateAccountKeyErr(alg, publicKey) ==
    IF UniqueViolation(alg, publicKey) THEN ErrDuplicateKey ELSE Nil

\* Store.CreateAccount: INSERT INTO account_keys.  On an error the deferred
\* function rolls the transaction back: the account row is gone.
CreateAccountInsertKey(p) ==
    /\ call[p].op = "CreateAccount" /\ call[p].pc = "insertKey"
    /\ IF CreateAccountKeyErr(call[p].alg, call[p].publicKey) # Nil
       THEN /\ call' = [call EXCEPT ![p].pc = "done", ![p].accountID = 0,
                           ![p].err = CreateAccountKeyErr(call[p].alg, call[p].publicKey)]
            /\ accounts' = TxRollback(p)
            /\ writer' = NoWriter
       ELSE /\ nextKeyID <= MaxKeys
            /\ call' = [call EXCEPT ![p].pc = "commit", ![p].keyID = nextKeyID]
            /\ UNCHANGED << accounts, writer >>
    /\ UNCHANGED httpVars
    /\ UNCHANGED << now, tokenTTL, challenges, tokens, keys,
                    nextChallenge, nextToken, nextAccountID, nextKeyID,
                    issuedChallenges, issuedTokens, returnedFor, authResult >>

\* Store.CreateAccount: tx.Commit publishes the account and its key.
CreateAccountCommit(p) ==
    /\ call[p].op = "CreateAccount" /\ call[p].pc = "commit"
    /\ accounts' = accounts \cup {call[p].accountID}
    /\ keys' = keys \cup { KeyRow(call[p].keyID, call[p].accountID,
                                  call[p].alg, call[p].publicKey) }
    /\ nextAccountID' = call[p].accountID + 1
    /\ nextKeyID' = call[p].keyID + 1
    /\ writer' = NoWriter
    /\ call' = [call EXCEPT ![p].pc = "done"]
    /\ UNCHANGED httpVars
    /\ UNCHANGED << now, tokenTTL, challenges, tokens, nextChallenge, nextToken,
                    issuedChallenges, issuedTokens, returnedFor, authResult >>

\* Store.AddAccountKey is entered.
AddAccountKeyBegin(p, accountID, alg, publicKey) ==
    BindBegin(p, "AddAccountKey", accountID, alg, publicKey)

\* The error of the single INSERT of AddAccountKey.  fk: the connection
\* enforces FOREIGN KEY(account_id) (the pragma of Open is per connection).
AddAccountKeyErr(accountID, alg, publicKey, fk) ==
    IF UniqueViolation(alg, publicKey) THEN ErrDuplicateKey
    ELSE IF fk /\ accountID \notin accounts THEN "FOREIGN KEY constraint failed"
    ELSE Nil

\* Store.AddAccountKey: one INSERT INTO account_keys.
AddAccountKeyInsert(p, fk) ==
    /\ call[p].op = "AddAccountKey" /\ call[p].pc = "begin"
    /\ CanWrite(p)
    /\ IF AddAccountKeyErr(call[p].accountID, call[p].alg, call[p].publicKey, fk) # Nil
       THEN /\ call' = [call EXCEPT ![p].pc = "done",
                           ![p].err = AddAccountKeyErr(call[p].accountID, call[p].alg,
                                                       call[p].publicKey, fk)]
            /\ UNCHANGED << keys, nextKeyID >>
       ELSE /\ nextKeyID <= MaxKeys
            /\ keys' = keys \cup { KeyRow(nextKeyID, call[p].accountID,
                                          call[p].alg, call[p].publicKey) }
            /\ nextKeyID' = nextKeyID + 1
            /\ call' = [call EXCEPT ![p].pc = "done", ![p].keyID = nextKeyID]
    /\ UNCHANGED httpVars
    /\ UNCHANGED << now, tokenTTL, challenges, tokens, accounts, nextChallenge,
                    nextToken, nextAccountID, writer, issuedChallenges,
                    issuedTokens, returnedFor, authResult >>

\* The key-binding call returns to its caller.
BindReturn(p) ==
    /\ call[p].op \in {"CreateAccount", "AddAccountKey"} /\ call[p].pc = "done"
    /\ call' = [call EXCEPT ![p] = Idle]
    /\ UNCHANGED httpVars
    /\ UNCHANGED << now, tokenTTL, challenges, tokens, accounts, keys,
                    nextChallenge, nextToken, nextAccountID, nextKeyID, writer,
                    issuedChallenges, issuedTokens, returnedFor, authResult >>

RevokeRowsAnyAccount(accountID, keyID) ==
    { k \in keys : k.id = keyID }

\* Store.RevokeAccountKey: UPDATE account_keys SET revoked_at = ?
\* WHERE id = ? AND account_id = ?
RevokeRows(accountID, keyID) ==
    { k \in keys : k.id = keyID /\ k.account_id = accountID }

RevokeErr(accountID, keyID) ==
    IF RevokeRows(accountID, keyID) = {} THEN ErrNotFound ELSE Nil

RevokedKeysToggle(accountID, keyID, revokedAt) ==
    { IF k \in RevokeRows(accountID, keyID)
      THEN [k EXCEPT !.revoked_at =
               IF k.revoked_at.Valid THEN NullInt ELSE ValidInt(Unix(revokedAt))]
      ELSE k : k \in keys }

RevokedKeys(accountID, keyID, revokedAt) ==
    { IF k \in RevokeRows(accountID, keyID)
      THEN [k EXCEPT !.revoked_at = ValidInt(Unix(revokedAt))]
      ELSE k : k \in keys }

RevokeAccountKey(accountID, keyID) ==
    /\ CanWrite("none")
    /\ keys' = RevokedKeys(accountID, keyID, now)
    /\ UNCHANGED httpVars
    /\ UNCHANGED << now, tokenTTL, challenges, tokens, accounts, nextChallenge,
                    nextToken, nextAccountID, nextKeyID, writer, call,
                    issuedChallenges, issuedTokens, returnedFor, authResult >>

\* ------------------------------------------------------- MemoryLimiter.Allow
\* The bucket Allow works on at time t: a new one when the key has none,
\* when the old one is past its resetAt or was made for another window.
AllowBucket(bk, key, window, t) ==
    IF ~bk[key].ok \/ After(t, bk[key].resetAt) \/ bk[key].window # window
    THEN [ok |-> TRUE, count |-> 0, resetAt |-> t + window, window |-> window]
    ELSE bk[key]

AllowAlways(bk, key, limit, window, t) == TRUE

\* The boolean Allow returns.
Allow(bk, key, limit, window, t) ==
    ~(AllowBucket(bk, key, window, t).count >= limit)

\* MemoryLimiter.store after the call.
AllowStore(bk, key, limit, window, t) ==
    [bk EXCEPT ![key] =
        IF AllowBucket(bk, key, window, t).count >= limit
        THEN AllowBucket(bk, key, window, t)
        ELSE [AllowBucket(bk, key, window, t) EXCEPT !.count = @ + 1]]

\* A call of MemoryLimiter.Allow made directly, with what it returned: the
\* boolean, and the retry duration time.Until(b.resetAt) as the instant it
\* ends at.
MaxCalls == 5
MemoryLimiterAllow(key, limit, window) ==
    /\ Len(allowLog) < MaxCalls
    /\ buckets' = AllowStore(buckets, key, limit, window, now)
    /\ allowLog' = Append(allowLog,
          [key |-> key, at |-> now, limit |-> limit, window |-> window,
           ok |-> Allow(buckets, key, limit, window, now),
           resetAt |-> AllowBucket(buckets, key, window, now).resetAt])
    /\ UNCHANGED << now, tokenTTL, challenges, tokens, accounts, keys,
                    nextChallenge, nextToken, nextAccountID, nextKeyID, writer,
                    call, issuedChallenges, issuedTokens, returnedFor,
                    authResult, records, response, contentVars >>

\* Server.allowRateLimit: the address first, then the bot id if one is sent.
AllowRateLimit(bk, action, limit, ip, botID, t) ==
    \/ limit <= 0
    \/ /\ Allow(bk, << action, "ip", ip >>, limit, Window, t)
       /\ \/ botID = ""
          \/ Allow(AllowStore(bk, << action, "ip", ip >>, limit, Window, t),
                   << action, "bot", botID >>, limit, Window, t)

AllowRateLimitStore(bk, action, limit, ip, botID, t) ==
    IF limit <= 0 THEN bk
    ELSE IF ~Allow(bk, << action, "ip", ip >>, limit, Window, t) \/ botID = ""
    THEN AllowStore(bk, << action, "ip", ip >>, limit, Window, t)
    ELSE AllowStore(AllowStore(bk, << action, "ip", ip >>, limit, Window, t),
                    << action, "bot", botID >>, limit, Window, t)

\* ------------------------------------------------------------- HTTP handlers
\* Request bodies: one readJSON or the validation rejects, one they accept.
Bodies == {"invalid", "valid"}

\* Targets of comments (the story), votes and flags.
Targets == { << "story", 1 >>, << "comment", 1 >> }
NoTarget == << "", 0 >>

ErrDuplicateVote == "duplicate vote"
ErrDuplicateFlag == "duplicate flag"
ErrMissingBearer == "missing bearer token"
ErrForeignKey == "FOREIGN KEY constraint failed"

\* Server.requireAuth: the error it answers 401 with.  hasBearer: the
\* Authorization header starts with "Bearer ".
RequireAuthErr(hasBearer, bearer, t) ==
    IF ~hasBearer THEN ErrMissingBearer ELSE AuthenticateErr(bearer, t)

AccountRequiredNever(verified) == FALSE

\* if verified.AccountID == nil { 401 "account required" }
AccountRequired(verified) == ~verified.AccountID.Valid

AccountMismatchNilOnly(verified, accountID) == ~verified.AccountID.Valid

\* if verified.AccountID == nil || *verified.AccountID != accountID { 403 }
AccountMismatch(verified, accountID) ==
    \/ ~verified.AccountID.Valid
    \/ verified.AccountID.Int64 # accountID

\* The error of the INSERT of CreateStory, CreateComment, CreateVote and
\* CreateFlag.  fk: the connection enforces FOREIGN KEY(story_id).
CreateErr(kind, accountID, target, fk) ==
    IF kind = "comment"
    THEN IF fk /\ ~\E r \in records : r.kind = "story" /\ r.id = target[2]
         THEN ErrForeignKey ELSE Nil
    ELSE IF kind \in {"vote", "flag"} /\
            \E r \in records : /\ r.kind = kind /\ r.target = target
                                /\ r.account_id = accountID
    THEN IF kind = "vote" THEN ErrDuplicateVote ELSE ErrDuplicateFlag
    ELSE Nil

\* The status the handler answers a failed INSERT with.
CreateErrStatus(kind, err) ==
    IF kind = "story" THEN 400
    ELSE IF err \in {ErrDuplicateVote, ErrDuplicateFlag} THEN 409
    ELSE 500

\* The status of POST /api/stories, /api/comments, /api/votes, /api/flags,
\* the checks in the order of the handlers.  allowed: what allowRateLimit
\* returned.
WriteStatus(kind, allowed, hasBearer, bearer, body, target, fk, t) ==
    IF ~allowed THEN 429
    ELSE IF RequireAuthErr(hasBearer, bearer, t) # Nil THEN 401
    ELSE IF AccountRequired(AuthenticateVerified(bearer, t)) THEN 401
    ELSE IF body = "invalid" THEN 400
    ELSE IF CreateErr(kind, AuthenticateVerified(bearer, t).AccountID.Int64,
                      target, fk) # Nil
    THEN CreateErrStatus(kind,
             CreateErr(kind, AuthenticateVerified(bearer, t).AccountID.Int64,
                       target, fk))
    ELSE 200

\* The value of a vote request: body "down" is a downvote, "valid" an upvote.
VoteValue(body) == IF body = "down" THEN 0 - 1 ELSE 1

\* The row the INSERT writes: the next id of its table, the account of the
\* token, created_at in whole seconds.  token: the bearer token of the
\* request that wrote it.
NewRecord(kind, bearer, body, target, t) ==
    [kind |-> kind,
     id |-> Cardinality({ r \in records : r.kind = kind }) + 1,
     account_id |-> AuthenticateVerified(bearer, t).AccountID.Int64,
     target |-> target, token |-> bearer,
     value |-> IF kind = "vote" THEN VoteValue(body) ELSE 0,
     url |-> "", created_at |-> Unix(t)]

\* A client presents a token value it was given or one never issued (0);
\* without the header there is no value.
BearerSent(hasBearer, bearer) ==
    IF hasBearer THEN bearer < nextToken ELSE bearer = 0

\* The story or comment row with this (type, id), if there is one.
Exists(target) == \E r \in records : r.kind = target[1] /\ r.id = target[2]
Row(target) == CHOOSE r \in records : r.kind = target[1] /\ r.id = target[2]

\* const autoHideThreshold = -3
autoHideThreshold == 0 - 3

\* Store.UpdateAccountKarma: UPDATE accounts SET karma = karma + ? WHERE id = ?
UpdateAccountKarma(k, accountID, delta) ==
    IF accountID \in accounts THEN [k EXCEPT ![accountID] = @ + delta] ELSE k

\* Store.UpdateStoryScore / UpdateCommentScore: UPDATE ... SET score = score + ?
UpdateScore(sc, target, delta) ==
    IF Exists(target) THEN [sc EXCEPT ![target] = @ + delta] ELSE sc

\* handleCreateVote after the score update: the row whose author gets the
\* karma and whose score is compared with the threshold.  For a story,
\* GetStory(req.TargetID); for a comment, the comment with c.ID ==
\* req.TargetID among ListCommentsByStory(req.TargetID), the comments of the
\* story with that same id that are not hidden.
VoteFound(target) ==
    IF target[1] = "story" THEN Exists(target)
    ELSE /\ Exists(target)
         /\ Row(target).target = << "story", target[2] >>
         /\ target \notin hidden

\* The columns after the statements that follow the INSERT of rec in
\* createStoryFromInput, handleCreateComment, handleCreateVote and
\* Store.CreateFlag (comment_count is not modelled).
ScoreAfter(rec) ==
    IF rec.kind \in {"story", "comment"}
    THEN [score EXCEPT ![<< rec.kind, rec.id >>] = 1]
    ELSE IF rec.kind = "vote" THEN UpdateScore(score, rec.target, rec.value)
    ELSE score

KarmaAfter(rec) ==
    IF rec.kind \in {"story", "comment"}
    THEN UpdateAccountKarma(karma, rec.account_id, 1)
    ELSE IF rec.kind = "vote" /\ VoteFound(rec.target)
    THEN UpdateAccountKarma(karma, Row(rec.target).account_id, rec.value)
    ELSE karma

\* if story.Score+req.Value <= autoHideThreshold && !story.Hidden, on the
\* story read after UpdateStoryScore (the same for a comment).
HiddenAfter(rec) ==
    IF /\ rec.kind = "vote"
       /\ VoteFound(rec.target)
       /\ UpdateScore(score, rec.target, rec.value)[rec.target] + rec.value
             <= autoHideThreshold
       /\ rec.target \notin hidden
    THEN hidden \cup {rec.target}
    ELSE hidden

FlagCountAfter(rec) ==
    IF rec.kind = "flag" /\ Exists(rec.target)
    THEN [flagCount EXCEPT ![rec.target] = @ + 1]
    ELSE flagCount

\* One write request, from allowRateLimit to the response.  Stories are
\* text posts (no url).
WriteRequest(kind, limit, ip, botID, hasBearer, bearer, body, target, fk) ==
    /\ response.n < MaxRequests
    /\ BearerSent(hasBearer, bearer)
    /\ CanWrite("none")
    /\ buckets' = AllowRateLimitStore(buckets, kind, limit, ip, botID, now)
    /\ IF WriteStatus(kind, AllowRateLimit(buckets, kind, limit, ip, botID, now),
                      hasBearer, bearer, body, target, fk, now) = 200
       THEN /\ records' = records \cup {NewRecord(kind, bearer, body, target, now)}
            /\ score' = ScoreAfter(NewRecord(kind, bearer, body, target, now))
            /\ karma' = KarmaAfter(NewRecord(kind, bearer, body, target, now))
            /\ hidden' = HiddenAfter(NewRecord(kind, bearer, body, target, now))
            /\ flagCount' = FlagCountAfter(NewRecord(kind, bearer, body, target, now))
       ELSE UNCHANGED << records, contentVars >>
    /\ response' =
          [n |-> response.n + 1, handler |-> kind, accountID |-> 0,
           hasBearer |-> hasBearer, bearer |-> bearer,
           status |-> WriteStatus(kind,
                         AllowRateLimit(buckets, kind, limit, ip, botID, now),
                         hasBearer, bearer, body, target, fk, now)]
    /\ UNCHANGED << now, tokenTTL, challenges, tokens, accounts, keys,
                    nextChallenge, nextToken, nextAccountID, nextKeyID, writer,
                    call, issuedChallenges, issuedTokens, returnedFor,
                    authResult, allowLog >>

handleCreateStory(ip, botID, hasBearer, bearer, body) ==
    WriteRequest("story", StoryPerMinute, ip, botID, hasBearer, bearer, body,
                 NoTarget, FALSE)

\* Link posts.  30*24*time.Hour, and the urls clients submit.
ThirtyDays == 30 * 24 * 3600 * TicksPerSec
URLs == {"u1", "u2"}

\* Store.FindStoryByURL: WHERE s.url = ? AND s.created_at >= ? (since.Unix()).
FindStoryByURL(url, since) ==
    { r \in records :
        r.kind = "story" /\ r.url = url /\ r.created_at >= Unix(since) }

\* ORDER BY s.created_at DESC LIMIT 1
Newest(rows) == CHOOSE r \in rows : \A o \in rows : o.created_at <= r.created_at

\* The requests that have not been answered yet.
InFlight == Cardinality({ p \in Procs : call[p].pc = "CreateStory" })

\* POST /api/stories with a url, up to the answer or, when FindStoryByURL
\* finds nothing, up to the call of Store.CreateStory.  The story value
\* (CreatedAt: time.Now()) is built before FindStoryByURL is called.
createStoryFromInputFind(p, ip, bearer, url) ==
    /\ call[p].pc \in {"idle", "returned"}
    /\ response.n + InFlight < MaxRequests
    /\ BearerSent(TRUE, bearer)
    /\ buckets' = AllowRateLimitStore(buckets, "story", StoryPerMinute, ip, "", now)
    /\ LET status == WriteStatus("story", AllowRateLimit(buckets, "story", StoryPerMinute, ip, "", now), TRUE, bearer, "valid", NoTarget, FALSE, now)
           found == FindStoryByURL(url, now - ThirtyDays)
       IN IF status = 200 /\ found = {}
          THEN /\ call' = [call EXCEPT ![p] = [op |-> "handleCreateStory", pc |-> "CreateStory", url |-> url, bearer |-> bearer, at |-> now]]
               /\ UNCHANGED response
          ELSE /\ call' = [call EXCEPT ![p] = [op |-> "handleCreateStory", pc |-> "returned", url |-> url, bearer |-> bearer, at |-> now, status |-> status, id |-> IF status = 200 THEN Newest(found).id ELSE 0, created |-> FALSE]]
               /\ response' = [n |-> response.n + 1, handler |-> "story", accountID |-> 0, hasBearer |-> TRUE, bearer |-> bearer, status |-> status]
    /\ UNCHANGED << now, tokenTTL, challenges, tokens, accounts, keys,
                    nextChallenge, nextToken, nextAccountID, nextKeyID, writer,
                    issuedChallenges, issuedTokens, returnedFor, authResult,
                    records, contentVars, allowLog >>

\* Store.CreateStory and UpdateAccountKarma, then the answer.
createStoryFromInputCreate(p) ==
    /\ call[p].pc = "CreateStory"
    /\ CanWrite(p)
    /\ LET rec == [NewRecord("story", call[p].bearer, "valid", NoTarget, call[p].at) EXCEPT !.url = call[p].url]
       IN /\ records' = records \cup {rec}
          /\ score' = ScoreAfter(rec)
          /\ karma' = KarmaAfter(rec)
          /\ call' = [call EXCEPT ![p] = [op |-> "handleCreateStory", pc |-> "returned", url |-> call[p].url, bearer |-> call[p].bearer, at |-> call[p].at, status |-> 200, id |-> rec.id, created |-> TRUE]]
    /\ response' = [n |-> response.n + 1, handler |-> "story", accountID |-> 0, hasBearer |-> TRUE, bearer |-> call[p].bearer, status |-> 200]
    /\ UNCHANGED << now, tokenTTL, challenges, tokens, accounts, keys,
                    nextChallenge, nextToken, nextAccountID, nextKeyID, writer,
                    issuedChallenges, issuedTokens, returnedFor, authResult,
                    buckets, hidden, flagCount, allowLog >>

handleCreateComment(ip, botID, hasBearer, bearer, body, storyID, fk) ==
    WriteRequest("comment", CommentPerMinute, ip, botID, hasBearer, bearer, body,
                 << "story", storyID >>, fk)

handleCreateVote(ip, botID, hasBearer, bearer, body, target) ==
    WriteRequest("vote", VotePerMinute, ip, botID, hasBearer, bearer, body,
                 target, FALSE)

handleCreateFlag(ip, botID, hasBearer, bearer, body, target) ==
    WriteRequest("flag", VotePerMinute, ip, botID, hasBearer, bearer, body,
                 target, FALSE)

\* POST /api/admin/hide.  secret: the X-Admin-Secret header equals
\* cfg.AdminSecret.  HideStory / HideComment: UPDATE ... SET hidden = 1
\* WHERE id = ?, which changes nothing when there is no such row.
AdminHideStatus(secret, body) ==
    IF ~secret THEN 401 ELSE IF body = "invalid" THEN 400 ELSE 200

Hide(h, target) == IF Exists(target) THEN h \cup {target} ELSE h

handleAdminHide(secret, body, target) ==
    /\ response.n < MaxRequests
    /\ CanWrite("none")
    /\ hidden' = IF AdminHideStatus(secret, body) = 200 THEN Hide(hidden, target) ELSE hidden
    /\ response' =
          [n |-> response.n + 1, handler |-> "adminHide", accountID |-> 0,
           hasBearer |-> FALSE, bearer |-> 0,
           status |-> AdminHideStatus(secret, body)]
    /\ UNCHANGED << now, tokenTTL, challenges, tokens, accounts, keys,
                    nextChallenge, nextToken, nextAccountID, nextKeyID, writer,
                    call, issuedChallenges, issuedTokens, returnedFor,
                    authResult, records, buckets, score, flagCount, karma,
                    allowLog >>

\* Store.ListStories, the rows of every sort ("top", "new" with or without
\* a cursor, "discussed"): WHERE s.hidden = 0.
StorySorts == {"", "top", "new", "discussed"}
ListStoriesAll(sortBy, cursor) == { r \in records : r.kind = "story" }
ListStories(sortBy, cursor) ==
    { r \in records :
        /\ r.kind = "story"
        /\ << "story", r.id >> \notin hidden
        /\ (sortBy = "new" /\ cursor > 0) => r.created_at < cursor }

\* Store.ListCommentsByStory: WHERE c.story_id = ? AND c.hidden = 0.
ListCommentsByStory(storyID) ==
    { r \in records :
        /\ r.kind = "comment"
        /\ r.target = << "story", storyID >>
        /\ << "comment", r.id >> \notin hidden }

\* The status of POST /api/accounts/{id}/keys.
AddKeyStatus(accountID, hasBearer, bearer, body, challenge, alg, publicKey, signature, fk, t) ==
    IF RequireAuthErr(hasBearer, bearer, t) # Nil THEN 401
    ELSE IF AccountMismatch(AuthenticateVerified(bearer, t), accountID) THEN 403
    ELSE IF body = "invalid" THEN 400
    ELSE IF ConsumeErr(challenge) # Nil THEN 401
    ELSE IF CheckChallenge(CHOOSE r \in SelectChallenge(challenge) : TRUE,
                           alg, publicKey, signature, t) # Nil THEN 401
    ELSE IF AddAccountKeyErr(accountID, alg, publicKey, fk) = ErrDuplicateKey
    THEN 409
    ELSE IF AddAccountKeyErr(accountID, alg, publicKey, fk) # Nil THEN 500
    ELSE 200

\* The handler reached s.store.ConsumeChallenge.
AddKeyConsumes(accountID, hasBearer, bearer, body, t) ==
    /\ RequireAuthErr(hasBearer, bearer, t) = Nil
    /\ ~AccountMismatch(AuthenticateVerified(bearer, t), accountID)
    /\ body = "valid"

handleAddAccountKey(accountID, hasBearer, bearer, body, challenge, alg, publicKey, signature, fk) ==
    /\ response.n < MaxRequests
    /\ BearerSent(hasBearer, bearer)
    /\ challenge < nextChallenge
    /\ CanWrite("none")
    /\ IF AddKeyConsumes(accountID, hasBearer, bearer, body, now)
       THEN /\ challenges' = DeleteChallenge(challenge)
            /\ returnedFor' = returnedFor \cup {challenge}
       ELSE UNCHANGED << challenges, returnedFor >>
    /\ IF AddKeyStatus(accountID, hasBearer, bearer, body, challenge, alg,
                       publicKey, signature, fk, now) = 200
       THEN /\ nextKeyID <= MaxKeys
            /\ keys' = keys \cup {KeyRow(nextKeyID, accountID, alg, publicKey)}
            /\ nextKeyID' = nextKeyID + 1
       ELSE UNCHANGED << keys, nextKeyID >>
    /\ response' =
          [n |-> response.n + 1, handler |-> "addKey", accountID |-> accountID,
           hasBearer |-> hasBearer, bearer |-> bearer,
           status |-> AddKeyStatus(accountID, hasBearer, bearer, body, challenge,
                                   alg, publicKey, signature, fk, now)]
    /\ UNCHANGED << now, tokenTTL, tokens, accounts, nextChallenge, nextToken,
                    nextAccountID, writer, call, issuedChallenges, issuedTokens,
                    authResult, records, buckets, contentVars, allowLog >>

\* The status of POST /api/accounts: readJSON and the missing-fields test,
\* ConsumeChallenge, expiry, algorithm, signature, Store.CreateAccount.
\* The accounts table has no unique index on display_name, so a name that
\* is taken fails no INSERT.
CreateAccountStatus(body, challenge, alg, publicKey, signature, t) ==
    IF body = "invalid" THEN 400
    ELSE IF ConsumeErr(challenge) # Nil THEN 401
    ELSE IF CheckChallenge(CHOOSE r \in SelectChallenge(challenge) : TRUE,
                           alg, publicKey, signature, t) # Nil THEN 401
    ELSE IF CreateAccountKeyErr(alg, publicKey) = ErrDuplicateKey THEN 409
    ELSE 200

handleCreateAccount(body, challenge, alg, publicKey, signature) ==
    /\ response.n < MaxRequests
    /\ challenge < nextChallenge
    /\ CanWrite("none")
    /\ IF body = "valid"
       THEN /\ challenges' = DeleteChallenge(challenge)
            /\ returnedFor' = returnedFor \cup {challenge}
       ELSE UNCHANGED << challenges, returnedFor >>
    /\ IF CreateAccountStatus(body, challenge, alg, publicKey, signature, now) = 200
       THEN /\ nextAccountID <= MaxAccounts
            /\ nextKeyID <= MaxKeys
            /\ accounts' = accounts \cup {nextAccountID}
            /\ keys' = keys \cup {KeyRow(nextKeyID, nextAccountID, alg, publicKey)}
            /\ nextAccountID' = nextAccountID + 1
            /\ nextKeyID' = nextKeyID + 1
       ELSE UNCHANGED << accounts, keys, nextAccountID, nextKeyID >>
    /\ response' =
          [n |-> response.n + 1, handler |-> "createAccount", accountID |-> 0,
           hasBearer |-> FALSE, bearer |-> 0,
           status |-> CreateAccountStatus(body, challenge, alg, publicKey, signature, now)]
    /\ UNCHANGED << now, tokenTTL, tokens, nextChallenge, nextToken,
                    writer, call, issuedChallenges, issuedTokens,
                    authResult, records, buckets, contentVars, allowLog >>

\* The status of DELETE /api/accounts/{id}/keys/{key_id}.
DeleteKeyStatus(accountID, keyID, hasBearer, bearer, t) ==
    IF RequireAuthErr(hasBearer, bearer, t) # Nil THEN 401
    ELSE IF AccountMismatch(AuthenticateVerified(bearer, t), accountID) THEN 403
    ELSE IF RevokeErr(accountID, keyID) = ErrNotFound THEN 404
    ELSE 200

handleDeleteAccountKey(accountID, keyID, hasBearer, bearer) ==
    /\ response.n < MaxRequests
    /\ BearerSent(hasBearer, bearer)
    /\ CanWrite("none")
    /\ keys' = IF DeleteKeyStatus(accountID, keyID, hasBearer, bearer, now)
                  \in {200, 404}
               THEN RevokedKeys(accountID, keyID, now)
               ELSE keys
    /\ response' =
          [n |-> response.n + 1, handler |-> "deleteKey", accountID |-> accountID,
           hasBearer |-> hasBearer, bearer |-> bearer,
           status |-> DeleteKeyStatus(accountID, keyID, hasBearer, bearer, now)]
    /\ UNCHANGED << now, tokenTTL, challenges, tokens, accounts, nextChallenge,
                    nextToken, nextAccountID, nextKeyID, writer, call,
                    issuedChallenges, issuedTokens, returnedFor, authResult,
                    records, buckets, contentVars, allowLog >>

\* ------------------------------------------------------------ specifications
\* The key pair a client registers in the authentication specifications.
AuthPairs == { << "ed25519", [mat |-> "edA", enc |-> "b64raw"] >> }

\* Redemption: two concurrent VerifyAndCreateToken calls, one registered key.
Next ==
    \/ Tick
    \/ \E alg \in AlgStrings : CreateChallenge(alg)
    \/ \E p \in Procs, ch \in 0..MaxChallenges : VerifySelect(p, ch)
    \/ \E p \in Procs : VerifyDelete(p)
    \/ \E p \in Procs, alg \in AlgStrings, pk \in PubKeyStrings, sig \in Signatures :
          VerifyCheck(p, alg, pk, sig)
    \/ \E p \in Procs : VerifyFind(p)
    \/ \E p \in Procs : VerifyCreateToken(p)
    \/ \E pair \in AuthPairs : CreateAccountBegin("p1", pair[1], pair[2])
    \/ CreateAccountInsertAccount("p1")
    \/ CreateAccountInsertKey("p1")
    \/ CreateAccountCommit("p1")
    \/ BindReturn("p1")
    \/ \E a \in 1..MaxAccounts, k \in 1..MaxKeys : RevokeAccountKey(a, k)

Spec == Init /\ [][Next]_vars

\* Token lifetime: one verifying client, the token TTL chosen at
\* construction, Authenticate calls at any time.
InitToken == InitStore /\ tokenTTL \in TokenTTLs

NextToken ==
    \/ Tick
    \/ CreateChallenge("ed25519")
    \/ \E ch \in 0..MaxChallenges : VerifySelect("p1", ch)
    \/ VerifyDelete("p1")
    \/ \E pair \in AuthPairs, sig \in Signatures :
          VerifyCheck("p1", pair[1], pair[2], sig)
    \/ VerifyFind("p1")
    \/ VerifyCreateToken("p1")
    \/ \E pair \in AuthPairs : CreateAccountBegin("p2", pair[1], pair[2])
    \/ CreateAccountInsertAccount("p2")
    \/ CreateAccountInsertKey("p2")
    \/ CreateAccountCommit("p2")
    \/ BindReturn("p2")
    \/ \E a \in 1..MaxAccounts, k \in 1..MaxKeys : RevokeAccountKey(a, k)
    \/ \E bearer \in 0..MaxTokens : Authenticate(bearer)

SpecToken == InitToken /\ [][NextToken]_vars

\* Key binding: two concurrent CreateAccount / AddAccountKey calls.
KeyPairs ==
    { << "ed25519", [mat |-> "edA", enc |-> "b64raw"] >>,
      << "ED25519", [mat |-> "edA", enc |-> "b64raw"] >>,
      << "ed25519", [mat |-> "edA", enc |-> "b64std"] >> }

NextKeys ==
    \/ \E p \in Procs, pair \in KeyPairs : CreateAccountBegin(p, pair[1], pair[2])
    \/ \E p \in Procs : CreateAccountInsertAccount(p)
    \/ \E p \in Procs : CreateAccountInsertKey(p)
    \/ \E p \in Procs : CreateAccountCommit(p)
    \/ \E p \in Procs, a \in 1..MaxAccounts, pair \in KeyPairs :
          AddAccountKeyBegin(p, a, pair[1], pair[2])
    \/ \E p \in Procs, fk \in BOOLEAN : AddAccountKeyInsert(p, fk)
    \/ \E p \in Procs : BindReturn(p)
    \/ \E a \in 1..MaxAccounts, k \in 1..MaxKeys : RevokeAccountKey(a, k)

SpecKeys == Init /\ [][NextKeys]_vars

\* Storage failures: one client redeeming while the store may fail, and
\* another registering the key.
NextFaults ==
    \/ Tick
    \/ CreateChallenge("ed25519")
    \/ \E c \in 0..MaxChallenges : VerifySelect("p1", c)
    \/ \E c \in 0..MaxChallenges, e \in StoreFaults : ConsumeChallengeFails("p1", c, e)
    \/ VerifyDelete("p1")
    \/ \E pair \in AuthPairs, sig \in Signatures :
          VerifyCheck("p1", pair[1], pair[2], sig)
    \/ VerifyFind("p1")
    \/ \E e \in StoreFaults : FindAccountKeyFails("p1", e)
    \/ VerifyCreateToken("p1")
    \/ \E e \in StoreFaults : CreateTokenFails("p1", e)
    \/ VerifyStoreErr("p1")
    \/ VerifyReturnErr("p1")
    \/ \E pair \in AuthPairs : CreateAccountBegin("p2", pair[1], pair[2])
    \/ CreateAccountInsertAccount("p2")
    \/ CreateAccountInsertKey("p2")
    \/ CreateAccountCommit("p2")
    \/ BindReturn("p2")

SpecFaults == Init /\ [][NextFaults]_vars

\* HTTP API: the server runs on a database that already holds account 1
\* with its key and two tokens issued earlier, token 1 for that key and
\* token 2 for an unregistered key.
InitHTTP ==
    /\ now = 0
    /\ tokenTTL = TicksPerSec
    /\ challenges = {}
    /\ accounts = {1}
    /\ keys = { KeyRow(1, 1, "ed25519", [mat |-> "edA", enc |-> "b64raw"]) }
    /\ tokens = { [token |-> 1, account_id |-> ValidInt(1), key_id |-> 1,
                   expires_at |-> 1],
                  [token |-> 2, account_id |-> NullInt, key_id |-> 0,
                   expires_at |-> 1] }
    /\ nextChallenge = 1
    /\ nextToken = 3
    /\ nextAccountID = 2
    /\ nextKeyID = 2
    /\ writer = NoWriter
    /\ call = [p \in Procs |-> Idle]
    /\ issuedChallenges = {}
    /\ issuedTokens = {}
    /\ returnedFor = {}
    /\ authResult = NoAuthResult
    /\ records = {}
    /\ buckets = [k \in LimiterKeys |-> NoBucket]
    /\ response = NoResponse
    /\ NoContent

NextHTTP ==
    \/ Tick
    \/ \E ip \in ClientIPs, botID \in BotIDs, hasBearer \in BOOLEAN,
          bearer \in 0..MaxTokens, body \in Bodies :
          handleCreateStory(ip, botID, hasBearer, bearer, body)
    \/ \E ip \in ClientIPs, botID \in BotIDs, hasBearer \in BOOLEAN,
          bearer \in 0..MaxTokens, body \in Bodies, fk \in BOOLEAN :
          handleCreateComment(ip, botID, hasBearer, bearer, body, 1, fk)
    \/ \E ip \in ClientIPs, botID \in BotIDs, hasBearer \in BOOLEAN,
          bearer \in 0..MaxTokens, body \in Bodies, target \in Targets :
          handleCreateVote(ip, botID, hasBearer, bearer, body, target)
    \/ \E ip \in ClientIPs, botID \in BotIDs, hasBearer \in BOOLEAN,
          bearer \in 0..MaxTokens, body \in Bodies, target \in Targets :
          handleCreateFlag(ip, botID, hasBearer, bearer, body, target)

SpecHTTP == InitHTTP /\ [][NextHTTP]_vars

\* HTTP API, key management on the same database.
NextHTTPKeys ==
    \/ Tick
    \/ CreateChallenge("ed25519")
    \/ \E a \in 1..MaxAccounts, hasBearer \in BOOLEAN, bearer \in 0..MaxTokens,
          body \in Bodies, ch \in 0..MaxChallenges, pair \in KeyPairs,
          sig \in Signatures, fk \in BOOLEAN :
          handleAddAccountKey(a, hasBearer, bearer, body, ch, pair[1], pair[2],
                              sig, fk)
    \/ \E a \in 1..MaxAccounts, k \in 1..MaxKeys, hasBearer \in BOOLEAN,
          bearer \in 0..MaxTokens :
          handleDeleteAccountKey(a, k, hasBearer, bearer)

SpecHTTPKeys == InitHTTP /\ [][NextHTTPKeys]_vars

\* The three ways to redeem a challenge, on the same database: POST
\* /api/auth/verify (Service.VerifyAndCreateToken), POST /api/accounts and
\* POST /api/accounts/{id}/keys.  The database holds account 1 with key 1
\* and one token, bound to them.
InitRedeem ==
    /\ now = 0
    /\ tokenTTL = TicksPerSec
    /\ challenges = {}
    /\ accounts = {1}
    /\ keys = { KeyRow(1, 1, "ed25519", [mat |-> "edA", enc |-> "b64raw"]) }
    /\ tokens = { [token |-> 1, account_id |-> ValidInt(1), key_id |-> 1,
                   expires_at |-> 1] }
    /\ nextChallenge = 1
    /\ nextToken = 2
    /\ nextAccountID = 2
    /\ nextKeyID = 2
    /\ writer = NoWriter
    /\ call = [p \in Procs |-> Idle]
    /\ issuedChallenges = {}
    /\ issuedTokens = {}
    /\ returnedFor = {}
    /\ authResult = NoAuthResult
    /\ records = {}
    /\ buckets = [k \in LimiterKeys |-> NoBucket]
    /\ response = NoResponse
    /\ NoContent

NextRedeem ==
    \/ Tick
    \/ CreateChallenge("ed25519")
    \/ \E ch \in 0..MaxChallenges : VerifySelect("p1", ch)
    \/ VerifyDelete("p1")
    \/ \E pair \in KeyPairs, sig \in Signatures :
          VerifyCheck("p1", pair[1], pair[2], sig)
    \/ VerifyFind("p1")
    \/ VerifyCreateToken("p1")
    \/ \E body \in Bodies, ch \in 0..MaxChallenges, pair \in KeyPairs,
          sig \in Signatures :
          handleCreateAccount(body, ch, pair[1], pair[2], sig)
    \/ \E bearer \in 1..MaxTokens, body \in Bodies, ch \in 0..MaxChallenges,
          pair \in KeyPairs, sig \in Signatures :
          handleAddAccountKey(1, TRUE, bearer, body, ch, pair[1], pair[2], sig, TRUE)

SpecRedeem == InitRedeem /\ [][NextRedeem]_vars

\* Content: the server runs on a database holding MaxVoters accounts, a
\* token for each of them, and story 1 posted by account 1; the accounts
\* post, comment, vote and flag from their own addresses and the
\* administrator hides content.
ContentTargets == { << "story", 1 >>, << "story", 2 >>, << "comment", 1 >> }

InitContent ==
    /\ now = 0
    /\ tokenTTL = TicksPerSec
    /\ challenges = {}
    /\ accounts = 1..MaxVoters
    /\ keys = {}
    /\ tokens = { [token |-> a, account_id |-> ValidInt(a), key_id |-> 0, expires_at |-> 1] : a \in 1..MaxVoters }
    /\ nextChallenge = 1
    /\ nextToken = MaxVoters + 1
    /\ nextAccountID = MaxVoters + 1
    /\ nextKeyID = 1
    /\ writer = NoWriter
    /\ call = [p \in Procs |-> Idle]
    /\ issuedChallenges = {}
    /\ issuedTokens = {}
    /\ returnedFor = {}
    /\ authResult = NoAuthResult
    /\ records = { [kind |-> "story", id |-> 1, account_id |-> 1, target |-> NoTarget, token |-> 1, value |-> 0, url |-> "", created_at |-> 0] }
    /\ buckets = [k \in LimiterKeys |-> NoBucket]
    /\ response = NoResponse
    /\ score = [c \in Contents |-> IF c = << "story", 1 >> THEN 1 ELSE 0]
    /\ hidden = {}
    /\ flagCount = [c \in Contents |-> 0]
    /\ karma = [a \in AccountIDs |-> IF a = 1 THEN 1 ELSE 0]
    /\ allowLog = << >>

NextContent ==
    \/ \E ip \in VoterIPs, bearer \in 1..MaxVoters :
          handleCreateStory(ip, "", TRUE, bearer, "valid")
    \/ \E ip \in VoterIPs, bearer \in 1..MaxVoters :
          handleCreateComment(ip, "", TRUE, bearer, "valid", 1, TRUE)
    \/ \E ip \in VoterIPs, bearer \in 1..MaxVoters, body \in {"valid", "down"}, target \in ContentTargets :
          handleCreateVote(ip, "", TRUE, bearer, body, target)
    \/ \E ip \in VoterIPs, bearer \in 1..MaxVoters, target \in ContentTargets :
          handleCreateFlag(ip, "", TRUE, bearer, "valid", target)
    \/ \E secret \in BOOLEAN, target \in ContentTargets :
          handleAdminHide(secret, "valid", target)

SpecContent == InitContent /\ [][NextContent]_vars

\* Karma: on the same database the accounts post stories, comment on
\* stories 1 and 2 and vote on story 1 and on comments 1 and 2.
KarmaTargets == { << "story", 1 >>, << "comment", 1 >>, << "comment", 2 >> }

NextKarma ==
    \/ \E ip \in VoterIPs, bearer \in 1..MaxVoters :
          handleCreateStory(ip, "", TRUE, bearer, "valid")
    \/ \E ip \in VoterIPs, bearer \in 1..MaxVoters, storyID \in 1..2 :
          handleCreateComment(ip, "", TRUE, bearer, "valid", storyID, TRUE)
    \/ \E ip \in VoterIPs, bearer \in 1..MaxVoters, body \in {"valid", "down"}, target \in KarmaTargets :
          handleCreateVote(ip, "", TRUE, bearer, body, target)

SpecKarma == InitContent /\ [][NextKarma]_vars

\* Link posts: two clients of account 1 submit stories with urls while
\* time passes; the database holds story 1 with url u1, posted 31 days ago.
InitURL ==
    /\ now = 0
    /\ tokenTTL = TicksPerSec
    /\ challenges = {}
    /\ accounts = {1}
    /\ keys = {}
    /\ tokens = { [token |-> 1, account_id |-> ValidInt(1), key_id |-> 0, expires_at |-> 1] }
    /\ nextChallenge = 1
    /\ nextToken = 2
    /\ nextAccountID = 2
    /\ nextKeyID = 1
    /\ writer = NoWriter
    /\ call = [p \in Procs |-> Idle]
    /\ issuedChallenges = {}
    /\ issuedTokens = {}
    /\ returnedFor = {}
    /\ authResult = NoAuthResult
    /\ records = { [kind |-> "story", id |-> 1, account_id |-> 1, target |-> NoTarget, token |-> 1, value |-> 0, url |-> "u1", created_at |-> Unix(0 - ThirtyDays) - 24 * 3600] }
    /\ buckets = [k \in LimiterKeys |-> NoBucket]
    /\ response = NoResponse
    /\ score = [c \in Contents |-> IF c = << "story", 1 >> THEN 1 ELSE 0]
    /\ hidden = {}
    /\ flagCount = [c \in Contents |-> 0]
    /\ karma = [a \in AccountIDs |-> IF a = 1 THEN 1 ELSE 0]
    /\ allowLog = << >>

NextURL ==
    \/ Tick
    \/ \E p \in Procs, ip \in VoterIPs, bearer \in 0..1, url \in URLs :
          createStoryFromInputFind(p, ip, bearer, url)
    \/ \E p \in Procs : createStoryFromInputCreate(p)

SpecURL == InitURL /\ [][NextURL]_vars

\* Rate limiting: calls on the limiter with one key, limit and window while
\* time passes, and story requests of one client on the server's own keys.
LimiterLimit == 2
LimiterWindow == 2

NextLimiter ==
    \/ Tick
    \/ \E key \in DirectKeys : MemoryLimiterAllow(key, LimiterLimit, LimiterWindow)
    \/ \E hasBearer \in BOOLEAN, bearer \in 0..1, body \in Bodies :
          handleCreateStory("ip1", "", hasBearer, bearer, body)

SpecLimiter == InitHTTP /\ [][NextLimiter]_vars

\* Token store: two clients redeeming and authenticating, unregistered key.
NextFrame ==
    \/ Tick
    \/ CreateChallenge("ed25519")
    \/ \E p \in Procs, ch \in 0..MaxChallenges : VerifySelect(p, ch)
    \/ \E p \in Procs : VerifyDelete(p)
    \/ \E p \in Procs, pair \in AuthPairs, sig \in Signatures :
          VerifyCheck(p, pair[1], pair[2], sig)
    \/ \E p \in Procs : VerifyFind(p)
    \/ \E p \in Procs : VerifyCreateToken(p)
    \/ \E bearer \in 0..MaxTokens : Authenticate(bearer)

SpecFrame == InitToken /\ [][NextFrame]_vars

\* Algorithms: one client asking for challenges and redeeming them under
\* algorithm strings of any kind.
NextAlg ==
    \/ Tick
    \/ \E alg \in WideAlgs : CreateChallenge(alg)
    \/ \E ch \in 0..MaxChallenges : VerifySelect("p1", ch)
    \/ VerifyDelete("p1")
    \/ \E alg \in WideAlgs, pk \in AlgKeys, sig \in AlgSignatures :
          VerifyCheck("p1", alg, pk, sig)
    \/ VerifyFind("p1")
    \/ VerifyCreateToken("p1")

SpecAlg == Init /\ [][NextAlg]_vars

\* VerifySignature alone: a call with arguments of any kind on an empty
\* database, and its return.
InitSig ==
    /\ now = 0
    /\ tokenTTL = TicksPerSec
    /\ challenges = {}
    /\ tokens = {}
    /\ accounts = {}
    /\ keys = {}
    /\ nextChallenge = 1
    /\ nextToken = 1
    /\ nextAccountID = 1
    /\ nextKeyID = 1
    /\ writer = NoWriter
    /\ \E alg \in SigAlgs, pk \in SigKeys, message \in Messages, sig \in SigTexts :
          call = [p \in Procs |-> IF p = "p1" THEN [op |-> "VerifySignature", pc |-> "call", alg |-> alg, publicKey |-> pk, message |-> message, signature |-> sig] ELSE Idle]
    /\ issuedChallenges = {}
    /\ issuedTokens = {}
    /\ returnedFor = {}
    /\ authResult = NoAuthResult
    /\ records = {}
    /\ buckets = [k \in LimiterKeys |-> NoBucket]
    /\ response = NoResponse
    /\ NoContent

VerifySignatureReturn(p) ==
    /\ call[p].op = "VerifySignature" /\ call[p].pc = "call"
    /\ call' = [call EXCEPT ![p] = [op |-> "VerifySignature", pc |-> "return", alg |-> call[p].alg, publicKey |-> call[p].publicKey, message |-> call[p].message, signature |-> call[p].signature, err |-> VerifySignature(call[p].alg, call[p].publicKey, call[p].message, call[p].signature)]]
    /\ UNCHANGED httpVars
    /\ UNCHANGED << now, tokenTTL, challenges, tokens, accounts, keys,
                    nextChallenge, nextToken, nextAccountID, nextKeyID, writer,
                    issuedChallenges, issuedTokens, returnedFor, authResult >>

NextSig == VerifySignatureReturn("p1")

SpecSig == InitSig /\ [][NextSig]_vars

\* ------------------------------------------------------------------ claims
InVerify(p) == call[p].op = "VerifyAndCreateToken"

\* The challenge values CreateChallenge has handed out.
IssuedValues == { i.Challenge : i \in issuedChallenges }

C2_ExactlyOneRedeems ==
    /\ \A p, q \in Procs :
          (p # q /\ InVerify(p) /\ InVerify(q)) => call[p].challenge # call[q].challenge
    /\ \A t1, t2 \in issuedTokens : t1.challenge = t2.challenge => t1 = t2

\* The challenge value ch is past the expires_at CreateChallenge returned.
ExpiredNow(ch) == \E i \in issuedChallenges : i.Challenge = ch /\ now > i.ExpiresAt

AtPc(p, pc) == InVerify(p) /\ call[p].pc = pc

\* C3: after a key has been revoked, every VerifyAndCreateToken call that
\* starts later and presents that key is rejected with the key-revoked error
\* at the key lookup, and no token is issued to it.
C3_RevokedKeyRejected ==
    /\ \A p \in Procs : (AtPc(p, "find") /\ call[p].revokedBefore)
          => FindErr(call[p].alg, call[p].publicKey) = ErrKeyRevoked
    /\ \A p \in Procs : AtPc(p, "token") => ~call[p].revokedBefore
    /\ \A it \in issuedTokens : ~it.revokedBefore

\* C4: a call holding a consumed challenge is rejected with the
\* algorithm-mismatch error for every claimed algorithm other than the
\* recorded one, whatever the key and the signature; the challenge is gone
\* from the store, and every token was issued for the algorithm of its
\* challenge.
C4_AlgMismatchRejected ==
    /\ \A p \in Procs : AtPc(p, "check") =>
          /\ SelectChallenge(call[p].challenge) = {}
          /\ \A alg \in AlgStrings \ {call[p].c.alg}, pk \in PubKeyStrings,
                sig \in Signatures :
                CheckChallenge(call[p].c, alg, pk, sig, now) = ErrAlgMismatch
    /\ \A it \in issuedTokens : \A i \in issuedChallenges :
          i.Challenge = it.challenge => i.Alg = it.alg

C6_Step ==
    /\ tokens' # tokens =>
          \E p \in Procs :
              /\ AtPc(p, "token") /\ call'[p] = Idle
              /\ tokens \subseteq tokens'
              /\ Cardinality(tokens') = Cardinality(tokens) + 1
    /\ \A p \in Procs :
          /\ (call'[p].pc = "token" /\ call[p].pc # "token") =>
                /\ AtPc(p, "find")
                /\ \A k \in keys :
                      (k.alg = call[p].alg /\ k.public_key = call[p].publicKey)
                          => ~k.revoked_at.Valid
          /\ (call'[p].pc = "find" /\ call[p].pc # "find") =>
                /\ AtPc(p, "check")
                /\ now <= TimeUnix(call[p].c.expires_at)
                /\ call'[p].alg = call[p].c.alg
                /\ call'[p].signature.signer = call'[p].publicKey.mat
                /\ call'[p].signature.msg = call[p].c.challenge
                /\ Scheme(call'[p].publicKey.mat) = ToLower(call'[p].alg)
          /\ (call'[p].pc = "check" /\ call[p].pc # "check") =>
                /\ AtPc(p, "delete")
                /\ call[p].c.challenge = call[p].challenge
                /\ challenges' = challenges \ {call[p].c}
          /\ (call'[p].pc = "delete" /\ call[p].pc # "delete") =>
                /\ call[p] = Idle
                /\ call'[p].c \in challenges
          /\ (InVerify(p) /\ call'[p] = Idle /\ issuedTokens' = issuedTokens) =>
                UNCHANGED << tokens, keys, accounts, challenges >>
    /\ (call' = call /\ returnedFor' # returnedFor) =>
          UNCHANGED << tokens, keys, accounts, challenges >>

AuthenticatedWith(it) ==
    authResult.err # "none" /\ authResult.bearer = it.token.Token

\* C7: for every token VerifyAndCreateToken returned with expiry E, an
\* Authenticate call with it made before E succeeds and one made after E
\* fails with the token-expired error.
C7_AcceptedUntilExpiry ==
    \A it \in issuedTokens : AuthenticatedWith(it) =>
        /\ authResult.at < it.token.ExpiresAt => authResult.err = Nil
        /\ authResult.at > it.token.ExpiresAt => authResult.err = ErrTokenExpired

\* C8: for a token issued through a key, an Authenticate call made while
\* that key is revoked and not after the token's expires_at succeeds and
\* returns the account_id and key_id the token was issued with.
C8_RevocationDoesNotCascade ==
    \A it \in issuedTokens :
        ( /\ AuthenticatedWith(it)
          /\ it.token.AccountID.Valid
          /\ authResult.keyRevoked
          /\ authResult.at <= it.token.ExpiresAt )
        => /\ authResult.err = Nil
           /\ authResult.verified =
                 [AccountID |-> it.token.AccountID, KeyID |-> it.token.KeyID]

\* A key-binding call of p has executed its statements and not yet returned.
BindDone(p) ==
    call[p].op \in {"CreateAccount", "AddAccountKey"} /\ call[p].pc = "done"

\* No two key records hold the same (alg, public_key).
KeysUnique ==
    \A k1, k2 \in keys :
        (k1.alg = k2.alg /\ k1.public_key = k2.public_key) => k1 = k2

\* A key-binding call entered with a pair that was already in a key record
\* completes with ErrDuplicateKey and leaves the key records as they were.
DuplicateRefused ==
    \A p \in Procs :
        ( /\ call[p].op \in {"CreateAccount", "AddAccountKey"}
          /\ call[p].pc # "done" /\ call'[p].pc = "done"
          /\ ~call[p].fresh )
        => /\ call'[p].err = ErrDuplicateKey
           /\ keys' = keys /\ accounts' = accounts

\* C9: in every reachable state no two key records, revoked or not, of one
\* account or of two, hold the same (alg, public_key); CreateAccount or
\* AddAccountKey called with a pair that already exists fails with
\* ErrDuplicateKey and adds no key.
C9_KeyPairUnique == []KeysUnique /\ [][DuplicateRefused]_vars

\* C9 witness: a call made with an existing pair was refused, with a revoked
\* record of that pair in the store.
C9_Witness ==
    \E p \in Procs :
        /\ BindDone(p) /\ ~call[p].fresh /\ call[p].err = ErrDuplicateKey
        /\ \E k \in keys : /\ k.alg = call[p].alg
                           /\ k.public_key = call[p].publicKey
                           /\ k.revoked_at.Valid

\* p and q are two completed key-binding calls for the same pair that ran
\* concurrently, the pair being in no record and the target accounts
\* existing when they were entered.
Concurrent(p, q) ==
    /\ p # q /\ BindDone(p) /\ BindDone(q)
    /\ call[p].alg = call[q].alg /\ call[p].publicKey = call[q].publicKey
    /\ call[p].fresh /\ call[q].fresh
    /\ call[p].known /\ call[q].known
    /\ call[q].overlaps

Issues(p) == AtPc(p, "token") /\ call'[p] = Idle

\* The token a run returns and the row it stores carry the account and key
\* ids the run determined at the key lookup, under a value nobody held.
IssuesAsFound(p) ==
    \E it \in issuedTokens' \ issuedTokens :
        /\ it.token.AccountID = call[p].accountID
        /\ it.token.KeyID = call[p].keyID
        /\ \A r \in tokens : r.token # it.token.Token
        /\ \E r \in tokens' : /\ r.token = it.token.Token
                              /\ r.account_id = it.token.AccountID
                              /\ r.key_id = it.token.KeyID

C11_Step ==
    \A p \in Procs :
        /\ ( /\ AtPc(p, "find")
             /\ FindAccountKey(call[p].alg, call[p].publicKey) = {}
             /\ call'[p] # call[p] )
           => /\ call'[p].pc = "token"
              /\ call'[p].accountID = NullInt
              /\ call'[p].keyID = 0
        /\ Issues(p) => IssuesAsFound(p)

\* C11: a run whose key lookup finds no record for the presented
\* (alg, public_key) is not rejected there; it goes on with no account and
\* key id 0, and the token it stores and returns is a new one carrying
\* exactly that: account_id none, key_id 0.
C11_UnregisteredKeyToken == [][C11_Step]_vars

\* C11 witness: a token without account and with key_id 0 was issued while
\* another key is registered.
C11_Witness ==
    \E it \in issuedTokens :
        /\ ~it.token.AccountID.Valid /\ it.token.KeyID = 0
        /\ keys # {}
        /\ \E r \in tokens : r.token = it.token.Token /\ ~r.account_id.Valid

\* C12: a run that has verified the signature of a key that is registered
\* and not revoked goes on with the id of the account owning that key and
\* with that key's id.
C12_RegisteredKeyToken ==
    \A p \in Procs : AtPc(p, "find") =>
        \A k \in keys :
            ( /\ SameKey(k, call[p].alg, call[p].publicKey)
              /\ ~k.revoked_at.Valid
              /\ \A k2 \in keys : SameKey(k2, call[p].alg, call[p].publicKey)
                                      => k2 = k )
            => /\ FindErr(call[p].alg, call[p].publicKey) = Nil
               /\ TokenAccountID(call[p].alg, call[p].publicKey)
                      = ValidInt(k.account_id)
               /\ TokenKeyID(call[p].alg, call[p].publicKey) = k.id

\* The token values VerifyAndCreateToken has handed out.
IssuedTokenValues == { it.token.Token : it \in issuedTokens }

\* C13: Authenticate with a token value that was never issued fails with
\* not found, and with an issued token whose expires_at has not passed it
\* succeeds and returns exactly the account_id and key_id of the token as
\* issued.
C13_AuthenticateReturnsIssued ==
    /\ (authResult.err # "none" /\ authResult.bearer \notin IssuedTokenValues)
          => authResult.err = ErrNotFound
    /\ \A it \in issuedTokens :
          (AuthenticatedWith(it) /\ authResult.at <= it.token.ExpiresAt)
          => /\ authResult.err = Nil
             /\ authResult.verified.AccountID = it.token.AccountID
             /\ authResult.verified.KeyID = it.token.KeyID

C14_Step ==
    /\ tokens \subseteq tokens'
    /\ \A p \in Procs : Issues(p) =>
          \E r \in tokens' \ tokens :
              /\ tokens' = tokens \cup {r}
              /\ \A old \in tokens : old.token # r.token
    /\ tokens' # tokens => \E p \in Procs : Issues(p)
    /\ authResult' # authResult => tokens' = tokens

\* C14: every step keeps every token record as it is; a successful
\* VerifyAndCreateToken adds exactly one record under a new value, nothing
\* else adds one, and an Authenticate call, also one that finds the token
\* expired, leaves the token store as it was.
C14_TokensOnlyAdded == [][C14_Step]_vars

\* C14 witness: two token records exist and an Authenticate call has found
\* one of them expired.
C14_Witness ==
    /\ Cardinality(tokens) = 2
    /\ authResult.err = ErrTokenExpired
    /\ \E r \in tokens : r.token = authResult.bearer

\* ---------------------------------------------------------------- claim C15
\* C15: revocation is one-way.  In every step, a key record whose revoked_at
\* is set is still in the key store afterwards, and every record with its id
\* still has revoked_at set: no operation clears the column or replaces the
\* record by a non-revoked one.
C15_Step ==
    \A k \in keys :
        k.revoked_at.Valid =>
            /\ \E k2 \in keys' : k2.id = k.id
            /\ \A k2 \in keys' : k2.id = k.id => k2.revoked_at.Valid

C16_RevokeScoped ==
    \A a \in 1..MaxAccounts, id \in 1..MaxKeys :
        IF \E k \in keys : k.id = id /\ k.account_id = a
        THEN /\ RevokeErr(a, id) = Nil
             /\ RevokedKeys(a, id, now) =
                   { IF k.id = id /\ k.account_id = a
                     THEN [k EXCEPT !.revoked_at = ValidInt(Unix(now))]
                     ELSE k : k \in keys }
        ELSE /\ RevokeErr(a, id) = ErrNotFound
             /\ RevokedKeys(a, id, now) = keys

\* Two accounts hold one key each; the key of one has been revoked, the key
\* of the other has not, and revoking the revoked key's id under the other
\* account is a not-found.
C16_Witness ==
    \E k1 \in keys, k2 \in keys :
        /\ k1.account_id # k2.account_id
        /\ k2.revoked_at.Valid /\ ~k1.revoked_at.Valid
        /\ RevokeErr(k1.account_id, k2.id) = ErrNotFound
        /\ RevokeErr(k2.account_id, k2.id) = Nil

\* ---------------------------------------------------------------- claim C17
\* C17: CreateAccount is all-or-nothing.  In every reachable state every
\* account has a key record; a step in which the key insert of CreateAccount
\* fails returns an error and leaves accounts and keys as they were; and an
\* account appears only together with the key of the call that created it.
C17_Step ==
    /\ \A p \in Procs :
          (/\ call[p].op = "CreateAccount" /\ call[p].pc = "insertKey"
           /\ call'[p].pc = "done")
          => /\ call'[p].err # Nil
             /\ accounts' = accounts /\ keys' = keys
    /\ \A a \in accounts' \ accounts :
          \E p \in Procs, k \in keys' \ keys :
              /\ call[p].op = "CreateAccount" /\ call[p].pc = "commit"
              /\ call[p].accountID = a /\ k.account_id = a
              /\ k.alg = call[p].alg /\ k.public_key = call[p].publicKey

C17_CreateAccountAllOrNothing ==
    /\ [](\A a \in accounts : \E k \in keys : k.account_id = a)
    /\ [][C17_Step]_vars

\* A CreateAccount call was refused with ErrDuplicateKey after it had
\* inserted its account row, while another account exists with its key.
C17_Witness ==
    \E p \in Procs :
        /\ call[p].op = "CreateAccount" /\ call[p].pc = "done"
        /\ call[p].err = ErrDuplicateKey
        /\ accounts # {}
        /\ \A a \in accounts : \E k \in keys : k.account_id = a

\* ---------------------------------------------------------------- claim C18
\* C18: storage failures are passed through by VerifyAndCreateToken.  When
\* ConsumeChallenge, FindAccountKey or CreateToken fails with an error of the
\* database, the call fails with exactly that error, returns, and no token is
\* stored or handed out on the way; only the not-found result of
\* FindAccountKey lets the call go on, to a token with no account and key
\* id 0.
C18_Step ==
    \A p \in Procs :
        /\ (InVerify(p) /\ call[p].pc \in ErrPcs /\ call'[p] # call[p])
           => /\ call'[p].pc = "failed"
              /\ call'[p].err = call[p].storeErr
              /\ tokens' = tokens /\ issuedTokens' = issuedTokens
        /\ (InVerify(p) /\ call[p].pc = "failed" /\ call'[p] # call[p])
           => /\ call'[p] = Idle
              /\ call[p].challenge \in returnedFor'
              /\ tokens' = tokens /\ issuedTokens' = issuedTokens
        /\ (/\ InVerify(p) /\ call[p].pc = "find"
            /\ StoreFindErr(call[p].alg, call[p].publicKey) = ErrNotFound
            /\ call'[p] # call[p] /\ call'[p].pc # "findErr")
           => /\ call'[p].pc = "token"
              /\ call'[p].accountID = NullInt /\ call'[p].keyID = 0

C18_StorageErrorsPassedThrough ==
    /\ [](\A p \in Procs :
            (InVerify(p) /\ call[p].pc = "failed")
            => call[p].err = call[p].storeErr /\ call[p].err \in StoreFaults)
    /\ [][C18_Step]_vars

\* FindAccountKey failed with a database error while the key was
\* registered: the call failed with that error and no token exists.
C18_Witness ==
    /\ InVerify("p1") /\ call["p1"].pc = "failed"
    /\ call["p1"].from = "findErr"
    /\ call["p1"].err = call["p1"].storeErr
    /\ keys # {}
    /\ tokens = {}

\* CreateToken failed with a database error: the call failed with that
\* error and no token exists.
C18_WitnessCreateToken ==
    /\ InVerify("p1") /\ call["p1"].pc = "failed"
    /\ call["p1"].from = "tokenErr"
    /\ tokens = {}

\* ---------------------------------------------------------------- claim C19
\* The request just answered was a write request (story, comment, vote, flag).
WriteAnswered ==
    response'.n = response.n + 1 /\ response'.handler \in HandlerActions

\* The bearer token is accepted by Authenticate at time t and names an account.
Authorized(hasBearer, bearer, t) ==
    /\ hasBearer
    /\ AuthenticateErr(bearer, t) = Nil
    /\ AuthenticateVerified(bearer, t).AccountID.Valid

LimitOf(kind) ==
    IF kind = "story" THEN StoryPerMinute
    ELSE IF kind = "comment" THEN CommentPerMinute ELSE VotePerMinute

\* Every record written in the step was written by the request just
\* answered, whose token Authenticate accepts and binds to the record's
\* account; a write request without such a token is answered with one of
\* the statuses in rejected and writes nothing.
WritesAuthorized(rejected) ==
    /\ \A r \in records' \ records :
          /\ WriteAnswered /\ response'.status = 200
          /\ response'.hasBearer /\ response'.bearer = r.token
          /\ response'.handler = r.kind
          /\ Authorized(TRUE, r.token, now)
          /\ r.account_id = AuthenticateVerified(r.token, now).AccountID.Int64
    /\ (WriteAnswered /\ ~Authorized(response'.hasBearer, response'.bearer, now))
       => /\ response'.status \in rejected
          /\ records' = records

\* C19 as stated: a story, comment, vote or flag record is created only by a
\* request whose bearer token Authenticate accepts and binds to an account,
\* and carries that account's id; a request with no token, an unknown or
\* expired token or a token with no account is rejected with 401 and
\* creates no record.
C19_WritesRequireAccountToken == [][WritesAuthorized({401})]_vars

\* C19 amended: such a request is rejected with 401, or with 429 when the
\* rate limiter refuses it before the token is looked at (the bucket of the
\* handler is full); in both cases it creates no record.
C19_WritesRequireAccountTokenOr429 ==
    [][/\ WritesAuthorized({401, 429})
       /\ (WriteAnswered /\ response'.status = 429)
          => \E key \in LimiterKeys :
                /\ key[1] = response'.handler
                /\ buckets'[key].ok
                /\ buckets'[key].count >= LimitOf(response'.handler)]_vars

\* Account 1 has written a record with its token, and a later request sent
\* without a token was refused by the rate limiter with 429.
C19_Witness ==
    /\ \E r \in records : r.account_id = 1 /\ r.token = 1
    /\ response.handler \in HandlerActions
    /\ ~response.hasBearer
    /\ response.status = 429

\* A request with the token that has no account was answered 401.
C19_WitnessNoAccount ==
    /\ response.handler \in HandlerActions
    /\ response.hasBearer /\ response.bearer = 2
    /\ response.status = 401
    /\ AuthenticateErr(2, now) = Nil

\* ---------------------------------------------------------------- claim C20
\* The request just answered was a key request on /api/accounts/{id}/keys.
KeyAnswered ==
    response'.n = response.n + 1 /\ response'.handler \in {"addKey", "deleteKey"}

\* C20: through the HTTP API the key store changes only in a key request on
\* account A whose bearer token Authenticate accepts and binds to A, and
\* only in key records of A; a key request whose accepted token is bound to
\* another account or to no account is answered 403 and leaves the key
\* store unchanged, and one without an accepted token is answered 401 and
\* leaves it unchanged too.
C20_Step ==
    /\ keys' # keys
       => /\ KeyAnswered /\ response'.status = 200
          /\ response'.hasBearer
          /\ AuthenticateErr(response'.bearer, now) = Nil
          /\ AuthenticateVerified(response'.bearer, now).AccountID
                = ValidInt(response'.accountID)
          /\ \A k \in (keys' \ keys) \cup (keys \ keys') :
                k.account_id = response'.accountID
    /\ (/\ KeyAnswered
        /\ response'.hasBearer
        /\ AuthenticateErr(response'.bearer, now) = Nil
        /\ AuthenticateVerified(response'.bearer, now).AccountID
              # ValidInt(response'.accountID))
       => /\ response'.status = 403
          /\ keys' = keys
    /\ (/\ KeyAnswered
        /\ ~(response'.hasBearer /\ AuthenticateErr(response'.bearer, now) = Nil))
       => /\ response'.status = 401
          /\ keys' = keys

C20_KeyRequestsNeedOwnerToken == [][C20_Step]_vars

\* Account 1 has revoked its key with its own token, and a later key request
\* with an accepted token that is not bound to the account in the path was
\* answered 403.
C20_Witness ==
    /\ \E k \in keys : k.account_id = 1 /\ k.revoked_at.Valid
    /\ response.handler \in {"addKey", "deleteKey"}
    /\ response.hasBearer
    /\ AuthenticateErr(response.bearer, now) = Nil
    /\ AuthenticateVerified(response.bearer, now).AccountID
          # ValidInt(response.accountID)
    /\ response.status = 403

\* Account 1 has added a second key with its own token.
C20_WitnessAdded ==
    /\ \E k \in keys : k.account_id = 1 /\ k.id = 2
    /\ response.handler = "addKey" /\ response.bearer = 1
    /\ response.status = 200

\* The algorithm strings that are, letter case aside, one of the four names.
NamesSupportedAlg(alg) ==
    alg \in {"ed25519", "Ed25519", "ED25519", "secp256k1", "SECP256K1",
             "rsa-pss", "RSA-PSS", "rsa-sha256", "RSA-SHA256"}

\* C21: VerifySignature returns the unsupported-algorithm error for every
\* algorithm string that is not, case-insensitively, ed25519, secp256k1,
\* rsa-pss or rsa-sha256, whatever the key, message and signature; and no
\* token is ever issued for a challenge that CreateChallenge issued under
\* such a string.
C21_UnsupportedAlgNoToken ==
    /\ \A alg \in WideAlgs, pk \in AlgKeys, sig \in AlgSignatures :
          ~NamesSupportedAlg(alg) =>
             VerifySignature(alg, pk, sig.msg, sig) = ErrUnsupportedAlg
    /\ \A it \in issuedTokens, i \in issuedChallenges :
          i.Challenge = it.challenge => NamesSupportedAlg(i.Alg)

\* C21 witness: CreateChallenge issued a challenge under an unsupported
\* string, a VerifyAndCreateToken call redeemed it and returned, and no
\* token exists.
C21_Witness ==
    /\ \E i \in issuedChallenges :
          /\ ~NamesSupportedAlg(i.Alg)
          /\ i.Challenge \in returnedFor
          /\ SelectChallenge(i.Challenge) = {}
    /\ tokens = {}
    /\ call["p1"] = Idle

\* C21 witness: a token was issued for a challenge of an upper-case RSA
\* algorithm string.
C21_WitnessSupported ==
    \E it \in issuedTokens, i \in issuedChallenges :
        i.Challenge = it.challenge /\ i.Alg = "RSA-PSS"

\* A VerifySignature call has returned.
SigReturned == call["p1"].op = "VerifySignature" /\ call["p1"].pc = "return"

\* Texts that no decoder of the algorithm reads.
NotBase64NorHex(enc) == enc \in {"pem", "junk"}
NotHex(enc) == enc \notin {"hex", "hex0x", "hexsp"}

\* C22: VerifySignature fails closed.  A call whose public key or
\* signature cannot be decoded for the algorithm, or decodes to a wrong
\* length, returns an error: an ed25519 key that is not 32 bytes, an
\* ed25519 signature that is not 64 bytes, a secp256k1 signature of fewer
\* than 64 bytes.
C22_FailsClosed ==
    SigReturned =>
        LET f == call["p1"] IN
        /\ /\ f.alg \in {"ed25519", "ED25519"}
           /\ \/ NotBase64NorHex(f.publicKey.enc)
              \/ NotBase64NorHex(f.signature.enc)
              \/ ByteLen(f.publicKey.mat) # 32
              \/ f.signature.len # 64
           => f.err # Nil
        /\ /\ f.alg = "secp256k1"
           /\ \/ NotHex(f.publicKey.enc)
              \/ NotHex(f.signature.enc)
              \/ f.signature.len < 64
           => f.err # Nil
        /\ /\ f.alg \in {"rsa-pss", "rsa-sha256"}
           /\ \/ f.publicKey.enc = "junk"
              \/ NotBase64NorHex(f.signature.enc)
           => f.err # Nil

\* C22 witness: an ed25519 call with a well-encoded 31-byte key and the
\* signature of the message by an ed25519 key returned the key-length
\* error.
C22_Witness ==
    /\ SigReturned
    /\ call["p1"].alg = "ed25519"
    /\ call["p1"].publicKey = [mat |-> "ed31", enc |-> "b64std"]
    /\ call["p1"].signature = SignatureOf("edA", call["p1"].message)
    /\ call["p1"].err = "invalid ed25519 public key length"

\* C22 witness: a secp256k1 signature of exactly 64 bytes (r and s without
\* the recovery byte) by the key over the message is accepted, and one of
\* 63 bytes is what the length error is about.
C22_WitnessSecp ==
    /\ SigReturned
    /\ call["p1"].alg = "secp256k1"
    /\ call["p1"].publicKey = [mat |-> "secA", enc |-> "hex0x"]
    /\ call["p1"].signature.len = 64
    /\ call["p1"].err = Nil

\* The returned call was VerifySignature("ed25519", pub, message, sig) with
\* the base64 text (standard or raw) of an ed25519 public key and the
\* base64 text of a whole ed25519 signature.
Ed25519Call ==
    /\ SigReturned
    /\ call["p1"].alg = "ed25519"
    /\ Scheme(call["p1"].publicKey.mat) = "ed25519"
    /\ call["p1"].publicKey.enc \in {"b64std", "b64raw"}
    /\ call["p1"].signature.scheme = "ed25519"
    /\ call["p1"].signature.enc \in {"b64std", "b64raw"}
    /\ call["p1"].signature.len = 64

\* C23: for every ed25519 key pair and challenge, VerifySignature with the
\* public key, the challenge and the signature of exactly that challenge by
\* the matching private key succeeds; the same signature with the public
\* key of another key pair fails (and so does it for another message).
C23_Ed25519RoundTrip ==
    Ed25519Call =>
        LET f == call["p1"] IN
        /\ (f.signature.signer = f.publicKey.mat /\ f.signature.msg = f.message)
              => f.err = Nil
        /\ f.signature.signer # f.publicKey.mat => f.err # Nil
        /\ f.signature.msg # f.message => f.err # Nil

\* C23 witness: the signature of message 2 by key edA verified under the
\* public key of edA.
C23_Witness ==
    /\ Ed25519Call
    /\ call["p1"].publicKey.mat = "edA"
    /\ call["p1"].signature.signer = "edA"
    /\ call["p1"].signature.msg = 2 /\ call["p1"].message = 2
    /\ call["p1"].err = Nil

\* C23 witness: the same signature was refused under the public key of edB.
C23_WitnessOtherKey ==
    /\ Ed25519Call
    /\ call["p1"].publicKey.mat = "edB"
    /\ call["p1"].signature.signer = "edA"
    /\ call["p1"].signature.msg = 2 /\ call["p1"].message = 2
    /\ call["p1"].err = "invalid ed25519 signature"

\* ---------------------------------------------------------------- claim C24
\* The vote rows recorded for a target, and the sum of their values.
VotesFor(target) == { r \in records : r.kind = "vote" /\ r.target = target }

RECURSIVE SumValues(_)
SumValues(S) ==
    IF S = {} THEN 0
    ELSE LET r == CHOOSE x \in S : TRUE IN r.value + SumValues(S \ {r})

\* A vote request was answered in this step.
VoteAnswered == response'.n = response.n + 1 /\ response'.handler = "vote"

\* At most one vote row per target and account.
OneVotePerAccount ==
    \A v1, v2 \in records :
        /\ v1.kind = "vote" /\ v2.kind = "vote"
        /\ v1.target = v2.target /\ v1.account_id = v2.account_id
        => v1 = v2

\* Every story's score is 1 plus the sum of the votes recorded for it.
ScoreIsSumOfVotes ==
    \A s \in records : s.kind = "story" =>
        score[<< "story", s.id >>] = 1 + SumValues(VotesFor(<< "story", s.id >>))

\* C24: an account records at most one vote per (target_type, target_id); a
\* vote request answered with the conflict status 409 records nothing and
\* leaves every score unchanged; and, all vote requests having completed,
\* the score of every story is its initial score 1 plus the sum of the
\* values of the votes recorded for it.
C24_OneVotePerAccountAndScore ==
    /\ [](OneVotePerAccount /\ ScoreIsSumOfVotes)
    /\ [][(VoteAnswered /\ response'.status = 409)
             => (records' = records /\ score' = score)]_vars

\* The parts of C24 that hold: one vote per account and target, a
\* conflicting vote changes nothing, and the score of a story that existed
\* when each of its votes was recorded is 1 plus their sum.
C24_VotedAfterCreation ==
    /\ [](OneVotePerAccount /\
          (\A s \in records : s.kind = "story" /\ s.id = 1 =>
              score[<< "story", 1 >>] = 1 + SumValues(VotesFor(<< "story", 1 >>))))
    /\ [][(VoteAnswered /\ response'.status = 409)
             => (records' = records /\ score' = score)]_vars

\* A second vote of an account on story 1 was answered 409.
C24_WitnessConflict ==
    /\ response.handler = "vote" /\ response.status = 409
    /\ \E v \in VotesFor(<< "story", 1 >>) : v.account_id = response.bearer

\* ---------------------------------------------------------------- claim C25
\* The calls of the log made with this key in the window that ends at
\* resetAt (the bucket created by the first of them), in call order.
WindowCalls(key, resetAt) ==
    { i \in 1..Len(allowLog) :
        allowLog[i].key = key /\ allowLog[i].resetAt = resetAt }

AdmittedBefore(key, resetAt, i) ==
    Cardinality({ j \in WindowCalls(key, resetAt) : j < i /\ allowLog[j].ok })

\* C25: for a fixed key, limit L >= 1 and window W, the calls of Allow
\* within one window (from the creation of the key's bucket until its
\* resetAt) return true at most L times, and every call made in the window
\* after L calls returned true returns false; a write request that
\* allowRateLimit refuses is answered 429 and writes nothing.
C25_AtMostLimitPerWindow ==
    /\ [](\A i \in 1..Len(allowLog) :
            LET c == allowLog[i] IN
            /\ c.at <= c.resetAt /\ c.resetAt <= c.at + c.window
            /\ AdmittedBefore(c.key, c.resetAt, i) <= c.limit
            /\ AdmittedBefore(c.key, c.resetAt, i) >= c.limit => ~c.ok
            /\ c.ok => AdmittedBefore(c.key, c.resetAt, i) < c.limit)
    /\ [][(WriteAnswered /\
            ~AllowRateLimit(buckets, response'.handler, LimitOf(response'.handler), "ip1", "", now))
           => /\ response'.status = 429
              /\ records' = records
              /\ UNCHANGED contentVars]_vars

\* C25 witness: in one window two calls were admitted and a third refused,
\* and after the window a call was admitted again; and a story request was
\* answered 429.
C25_Witness ==
    /\ \E i, j \in 1..Len(allowLog) :
          /\ i < j
          /\ allowLog[i].resetAt = allowLog[j].resetAt
          /\ AdmittedBefore(allowLog[i].key, allowLog[i].resetAt, i) = LimiterLimit
          /\ ~allowLog[i].ok /\ ~allowLog[j].ok
    /\ allowLog[Len(allowLog)].ok
    /\ allowLog[Len(allowLog)].resetAt > allowLog[1].resetAt
    /\ response.handler = "story" /\ response.status = 429

\* ---------------------------------------------------------------- claim C26
\* The story rows with this url created within the 30 days before t.
RecentWithURL(url, t) ==
    { r \in records :
        /\ r.kind = "story" /\ r.url = url
        /\ r.created_at >= Unix(t - ThirtyDays) }

\* No two stories with the same url were created less than 30 days apart.
NoRecentDuplicateURL ==
    \A r1, r2 \in records :
        /\ r1.kind = "story" /\ r2.kind = "story"
        /\ r1.id # r2.id /\ r1.url = r2.url /\ r1.url # ""
        => \/ r1.created_at - r2.created_at >= Unix(ThirtyDays)
           \/ r2.created_at - r1.created_at >= Unix(ThirtyDays)

\* A submission by p was answered 200 in this step.
StoryAnswered(p) ==
    /\ call[p].pc # "returned" \/ call'[p] # call[p]
    /\ call'[p].pc = "returned" /\ call'[p].status = 200

\* C26: a submission whose url is the url of a story created within the
\* previous 30 days creates no story and returns that story's id; and,
\* after any interleaving of submissions, no two stories with the same url
\* have creation times less than 30 days apart.
C26_NoDuplicateURLWithin30Days ==
    /\ [][\A p \in Procs :
            (StoryAnswered(p) /\ RecentWithURL(call'[p].url, call'[p].at) # {})
            => /\ records' = records
               /\ call'[p].id \in { r.id : r \in RecentWithURL(call'[p].url, call'[p].at) }]_vars
    /\ []NoRecentDuplicateURL

\* The part of C26 that holds: a submission that arrives when a story with
\* its url and less than 30 days old exists creates nothing and returns
\* that story, and a url last posted more than 30 days ago is posted anew.
C26_SequentialSubmissions ==
    [][\A p \in Procs :
         (/\ call[p].pc \in {"idle", "returned"}
          /\ call'[p] # call[p]
          /\ RecentWithURL(call'[p].url, now) # {})
         => \/ call'[p].pc = "returned" /\ call'[p].status # 200 /\ records' = records
            \/ /\ call'[p].pc = "returned" /\ records' = records
               /\ call'[p].id \in { r.id : r \in RecentWithURL(call'[p].url, now) }]_vars

\* Two stories with the url u2 exist.
C26_WitnessRace ==
    \E r1, r2 \in records :
        /\ r1.kind = "story" /\ r2.kind = "story" /\ r1.id # r2.id
        /\ r1.url = "u2" /\ r2.url = "u2"

\* The url of the story posted 31 days ago was posted anew, and a third
\* submission of it was answered with the new story.
C26_WitnessOld ==
    /\ \E r \in records : r.kind = "story" /\ r.url = "u1" /\ r.id = 2
    /\ \E p \in Procs :
          /\ call[p].pc = "returned" /\ call[p].url = "u1"
          /\ ~call[p].created /\ call[p].status = 200 /\ call[p].id = 2

\* ---------------------------------------------------------------- claim C27
\* The cursors (created_at bounds, 0 for none) a listing is asked with.
Cursors == 0..(MaxTime \div TicksPerSec + 1)

\* The stories and comments that any listing returns.
Listed ==
    { << r.kind, r.id >> :
        r \in UNION ({ ListStories(sortBy, cursor) : sortBy \in StorySorts, cursor \in Cursors }
                      \cup { ListCommentsByStory(id) : id \in 1..(MaxRequests + 1) }) }

\* C27: a hidden story or comment appears in no story listing, whatever the
\* sort, and in no story's comment listing; and no operation makes a hidden
\* story or comment visible again.
C27_HiddenNeverListed ==
    /\ [](Listed \cap hidden = {})
    /\ [][hidden \subseteq hidden']_vars

\* A story and a comment exist and are hidden.
C27_Witness ==
    /\ \E r \in records : r.kind = "story" /\ << "story", r.id >> \in hidden
    /\ \E r \in records : r.kind = "comment" /\ << "comment", r.id >> \in hidden

\* A story is hidden while another story and a comment are listed.
C27_WitnessListed ==
    /\ \E r \in records : r.kind = "story" /\ << "story", r.id >> \in hidden
    /\ \E c \in Listed : c[1] = "story"
    /\ \E c \in Listed : c[1] = "comment"

\* ---------------------------------------------------------------- claim C28
\* The accounts whose flag on the target was recorded by POST /api/flags.
FlaggersOf(target) ==
    { r.account_id : r \in { f \in records : f.kind = "flag" /\ f.target = target } }

\* C28: a story or comment that has been flagged by 3 distinct accounts
\* through POST /api/flags is hidden.
C28_HiddenAfterThreeFlags ==
    \A target \in Contents :
        (Exists(target) /\ Cardinality(FlaggersOf(target)) >= 3)
        => target \in hidden

\* What the code does keep: flag_count of an existing story or comment is
\* the number of accounts that flagged it since it was created.
C28_FlagCountCounts ==
    \A target \in Contents :
        Exists(target) => flagCount[target] <= Cardinality(FlaggersOf(target))

\* Story 1 has been flagged by three accounts and is listed.
C28_WitnessVisible ==
    /\ Cardinality(FlaggersOf(<< "story", 1 >>)) = 3
    /\ flagCount[<< "story", 1 >>] = 3
    /\ << "story", 1 >> \in Listed

\* ---------------------------------------------------------------- claim C29
\* The state of the key record k decides what the call presenting
\* (alg, publicKey) gets at the key lookup: key revoked when k is revoked, a
\* token bound to k's account and id otherwise.
Governs(k, alg, publicKey) ==
    IF k.revoked_at.Valid
    THEN FindErr(alg, publicKey) = ErrKeyRevoked
    ELSE /\ FindErr(alg, publicKey) = Nil
         /\ TokenAccountID(alg, publicKey) = ValidInt(k.account_id)
         /\ TokenKeyID(alg, publicKey) = k.id

\* The records of the key presented as (alg, publicKey) whose account exists.
RegisteredAs(alg, publicKey) ==
    { k \in keys : SameKey(k, alg, publicKey) /\ k.account_id \in accounts }

\* C29: a call whose signature check has accepted key material that is
\* registered under the same algorithm is decided by the state of a record
\* of that key, whichever encoding of the key and whichever letter case of
\* the algorithm name the caller used.
C29_RegisteredKeyGoverns ==
    \A p \in Procs : AtPc(p, "find") =>
        (RegisteredAs(call[p].alg, call[p].publicKey) # {}
         => \E k \in RegisteredAs(call[p].alg, call[p].publicKey) :
                Governs(k, call[p].alg, call[p].publicKey))

\* What holds: a call that presents exactly the registered strings is
\* decided by the state of the record with these strings.
C29_ExactStringsGovern ==
    \A p \in Procs : AtPc(p, "find") =>
        \A k \in keys :
            (k.alg = call[p].alg /\ k.public_key = call[p].publicKey /\ k.account_id \in accounts)
            => Governs(k, call[p].alg, call[p].publicKey)

\* A revoked key passed the signature check in another encoding than the
\* registered one and the lookup found no record.
C29_WitnessAlias ==
    \E p \in Procs :
        /\ AtPc(p, "find")
        /\ \E k \in RegisteredAs(call[p].alg, call[p].publicKey) : k.revoked_at.Valid
        /\ FindAccountKey(call[p].alg, call[p].publicKey) = {}
        /\ FindErr(call[p].alg, call[p].publicKey) = Nil

\* A key passed the signature check with exactly the registered strings.
C29_WitnessExact ==
    \E p \in Procs :
        /\ AtPc(p, "find")
        /\ \E k \in FindAccountKey(call[p].alg, call[p].publicKey) :
              k.revoked_at.Valid /\ k.account_id \in accounts

\* ---------------------------------------------------------------- claim C30
\* The consumed challenge c has expired at time t.
ChallengeExpired(c, t) == After(t, TimeUnix(c.expires_at))

\* A key record with exactly these strings is revoked.
PresentsRevoked(alg, publicKey) ==
    \E k \in FindAccountKey(alg, publicKey) : k.revoked_at.Valid

\* C30: after the challenge has been redeemed the checks come in the order
\* algorithm, expiry, signature, revocation: a claimed algorithm other than
\* the challenge's gives the algorithm-mismatch error even when the
\* challenge has expired, an expired challenge with the right algorithm
\* gives the expired error, and an invalid signature gives the signature
\* error even when the key presented is revoked.
C30_ChecksInSpecifiedOrder ==
    \A p \in Procs : AtPc(p, "check") =>
        /\ SelectChallenge(call[p].challenge) = {}
        /\ \A alg \in AlgStrings, pk \in PubKeyStrings, sig \in Signatures :
              /\ call[p].c.alg # alg
                   => CheckChallenge(call[p].c, alg, pk, sig, now) = ErrAlgMismatch
              /\ (call[p].c.alg = alg /\ ChallengeExpired(call[p].c, now))
                   => CheckChallenge(call[p].c, alg, pk, sig, now) = ErrChallengeExpired
              /\ (/\ call[p].c.alg = alg /\ ~ChallengeExpired(call[p].c, now)
                  /\ VerifySignature(alg, pk, call[p].c.challenge, sig) # Nil)
                   => CheckChallenge(call[p].c, alg, pk, sig, now)
                        = VerifySignature(alg, pk, call[p].c.challenge, sig)

\* The order the calls follow: redeemed, expiry, algorithm, signature,
\* revocation.  An expired challenge gives the expired error whatever the
\* algorithm; the rest is as in C30.
C30_ChecksInCodeOrder ==
    \A p \in Procs : AtPc(p, "check") =>
        /\ SelectChallenge(call[p].challenge) = {}
        /\ \A alg \in AlgStrings, pk \in PubKeyStrings, sig \in Signatures :
              /\ ChallengeExpired(call[p].c, now)
                   => CheckChallenge(call[p].c, alg, pk, sig, now) = ErrChallengeExpired
              /\ (call[p].c.alg # alg /\ ~ChallengeExpired(call[p].c, now))
                   => CheckChallenge(call[p].c, alg, pk, sig, now) = ErrAlgMismatch
              /\ (/\ call[p].c.alg = alg /\ ~ChallengeExpired(call[p].c, now)
                  /\ VerifySignature(alg, pk, call[p].c.challenge, sig) # Nil)
                   => /\ CheckChallenge(call[p].c, alg, pk, sig, now)
                           = VerifySignature(alg, pk, call[p].c.challenge, sig)
                      /\ CheckChallenge(call[p].c, alg, pk, sig, now) # ErrKeyRevoked

\* A call is about to check a challenge that has expired.
C30_WitnessExpired ==
    \E p \in Procs :
        /\ AtPc(p, "check") /\ ChallengeExpired(call[p].c, now)
        /\ \E alg \in AlgStrings : call[p].c.alg # alg

\* A call is about to check a live challenge while a key of the
\* challenge's algorithm is revoked, and some signature is invalid for it.
C30_WitnessRevoked ==
    \E p \in Procs :
        /\ AtPc(p, "check") /\ ~ChallengeExpired(call[p].c, now)
        /\ \E pk \in PubKeyStrings, sig \in Signatures :
              /\ PresentsRevoked(call[p].c.alg, pk)
              /\ VerifySignature(call[p].c.alg, pk, call[p].c.challenge, sig) # Nil

\* ---------------------------------------------------------------- claim C31
\* The challenge values a request has consumed and returned for.
Redeemed == returnedFor \cap IssuedValues

C31_WitnessFailed ==
    /\ Redeemed # {}
    /\ accounts = {1} /\ issuedTokens = {} /\ Cardinality(keys) = 1
    /\ response.handler = "createAccount" /\ response.status = 401 /\ response.n = 2

\* ---------------------------------------------------------------- claim C32
\* The expires_at CreateChallenge returned for the challenge value ch.
ReturnedExpiresAt(ch) ==
    (CHOOSE i \in issuedChallenges : i.Challenge = ch).ExpiresAt

\* The well-formed redemptions of the consumed challenge c: the algorithm
\* of the challenge, a key and a signature that verifies.
ValidRedemptions(c) ==
    { x \in AlgStrings \X PubKeyStrings \X Signatures :
        x[1] = c.alg /\ VerifySignature(x[1], x[2], c.challenge, x[3]) = Nil }

\* C32: a challenge redeemed with its algorithm and a valid signature at a
\* time not later than the expires_at that CreateChallenge returned is not
\* rejected as expired.
C32_ReturnedExpiryEnforced ==
    \A p \in Procs :
        (AtPc(p, "check") /\ now <= ReturnedExpiresAt(call[p].challenge))
        => \A x \in ValidRedemptions(call[p].c) :
              CheckChallenge(call[p].c, x[1], x[2], x[3], now) # ErrChallengeExpired

\* What is enforced is the returned expires_at cut to whole seconds: a
\* well-formed redemption is rejected as expired exactly when the time is
\* past the last whole second not after the returned expires_at.
C32_TruncatedExpiryEnforced ==
    \A p \in Procs : AtPc(p, "check") =>
        \A x \in ValidRedemptions(call[p].c) :
            (CheckChallenge(call[p].c, x[1], x[2], x[3], now) = ErrChallengeExpired)
            <=> now > TimeUnix(Unix(ReturnedExpiresAt(call[p].challenge)))

\* A call checks its challenge exactly at the returned expires_at, which is
\* not a whole second, with a well-formed redemption at hand.
C32_WitnessBetween ==
    \E p \in Procs :
        /\ AtPc(p, "check") /\ now = ReturnedExpiresAt(call[p].challenge)
        /\ TimeUnix(Unix(now)) < now
        /\ ValidRedemptions(call[p].c) # {}

\* A call checks a challenge whose returned expires_at is a whole second
\* exactly at that time: it is not rejected as expired.
C32_WitnessWholeSecond ==
    \E p \in Procs :
        /\ AtPc(p, "check") /\ now = ReturnedExpiresAt(call[p].challenge)
        /\ TimeUnix(Unix(now)) = now
        /\ \E x \in ValidRedemptions(call[p].c) :
              CheckChallenge(call[p].c, x[1], x[2], x[3], now) = Nil

\* ---------------------------------------------------------------- claim C33
\* This step is a request to POST /api/votes that was answered.
VoteStep == response'.n # response.n /\ response'.handler = "vote"

\* The stories and comments this step hides.
NewlyHidden == hidden' \ hidden

\* C33: a vote hides a story or comment only if the target's score after
\* that vote is at most autoHideThreshold (-3).
C33_HiddenOnlyAtThreshold ==
    [][VoteStep => \A target \in NewlyHidden : score'[target] <= autoHideThreshold]_vars

\* What the votes do: the score read after the update has the vote's value
\* added once more before it is compared, so a target is hidden by the
\* down-vote that brings its score to -2, and by no vote that leaves it
\* above -2.
C33_HiddenAtMinusTwo ==
    [][VoteStep => \A target \in NewlyHidden :
           /\ score'[target] <= autoHideThreshold + 1
           /\ score'[target] = score[target] - 1]_vars

\* Story 1 was hidden with score -2 and nobody but voters acted.
C33_WitnessMinusTwo ==
    /\ << "story", 1 >> \in hidden
    /\ score[<< "story", 1 >>] = 0 - 2
    /\ response.handler = "vote" /\ response.status = 200 /\ response.n = 3
    /\ Cardinality(VotesFor(<< "story", 1 >>)) = 3

\* ---------------------------------------------------------------- claim C34
\* The votes this step records.
NewVotes == { r \in records' \ records : r.kind = "vote" }

\* The karma column after the author of target has received delta.
KarmaPlus(target, delta) ==
    [karma EXCEPT ![Row(target).account_id] = @ + delta]

\* C34: every vote of value v recorded on an existing story or comment
\* changes the karma of the target's author by exactly v and no other
\* karma, whatever the ids of a comment and of its story.
C34_VoteChangesAuthorKarma ==
    [][\A rec \in NewVotes :
          Exists(rec.target) => karma' = KarmaPlus(rec.target, rec.value)]_vars

\* What the votes do: a vote on a story changes its author's karma by v; a
\* vote on a comment does so only when the comment's id is the id of its
\* story and the comment is not hidden, and changes no karma otherwise.
C34_CommentKarmaWhenIdsCoincide ==
    [][\A rec \in NewVotes :
          Exists(rec.target) =>
             IF \/ rec.target[1] = "story"
                \/ /\ Row(rec.target).target = << "story", rec.target[2] >>
                   /\ rec.target \notin hidden
             THEN karma' = KarmaPlus(rec.target, rec.value)
             ELSE karma' = karma]_vars

\* Comment 2, on story 1, has a recorded vote and its author's karma is
\* what posting gave.
C34_WitnessLost ==
    /\ \E r \in records : r.kind = "comment" /\ r.id = 2 /\ r.target = << "story", 1 >>
    /\ VotesFor(<< "comment", 2 >>) # {}
    /\ \A a \in AccountIDs : karma[a] =
          Cardinality({ r \in records : r.kind \in {"story", "comment"} /\ r.account_id = a })

\* Comment 1, on story 1, has a recorded down-vote and its author's karma
\* went down.
C34_WitnessCounted ==
    /\ \E r \in records : r.kind = "comment" /\ r.id = 1 /\ r.target = << "story", 1 >>
    /\ \E v \in VotesFor(<< "comment", 1 >>) : v.value = 0 - 1
    /\ \E a \in AccountIDs : karma[a] <
          Cardinality({ r \in records : r.kind \in {"story", "comment"} /\ r.account_id = a })

\* ---------------------------------------------------------------- claim C35
\* The calls of the log with this key, limit and window that returned true
\* at a time from t up to, but not including, t + window.
AdmittedIn(key, limit, window, t) ==
    { i \in 1..Len(allowLog) :
        /\ allowLog[i].key = key /\ allowLog[i].limit = limit
        /\ allowLog[i].window = window /\ allowLog[i].ok
        /\ t <= allowLog[i].at /\ allowLog[i].at < t + window }

\* C35: for a fixed key, limit L and window W, no time interval of length
\* W contains more than L calls for which Allow returned true.
C35_AtMostLimitInAnyInterval ==
    \A key \in DirectKeys, t \in 0..MaxTime :
        Cardinality(AdmittedIn(key, LimiterLimit, LimiterWindow, t)) <= LimiterLimit

\* What the fixed windows give: an interval of length W meets at most two
\* buckets, so it contains at most 2L admitted calls.
C35_AtMostTwiceLimit ==
    \A key \in DirectKeys, t \in 0..MaxTime :
        Cardinality(AdmittedIn(key, LimiterLimit, LimiterWindow, t)) <= 2 * LimiterLimit

\* The last call of one bucket and the first two of the next were admitted
\* within less than one window.
C35_WitnessBurst ==
    \E i, j, k \in 1..Len(allowLog) :
        /\ i < j /\ j < k
        /\ allowLog[i].ok /\ allowLog[j].ok /\ allowLog[k].ok
        /\ allowLog[i].resetAt < allowLog[j].resetAt
        /\ allowLog[j].resetAt = allowLog[k].resetAt
        /\ allowLog[k].at - allowLog[i].at < LimiterWindow

\* The challenge was consumed by VerifyAndCreateToken, which issued a
\* token, and a later POST /api/accounts was answered 401.
C31_WitnessToken ==
    /\ \E it \in issuedTokens : it.challenge \in Redeemed
    /\ response.handler = "createAccount" /\ response.status = 401

====
